---------------------------- MODULE Spec2Model ----------------------------
(***************************************************************************)
(* A model of the DOCS key-value store: the tiered LSM engine              *)
(* (Part3/src/client.cpp from line 166 on: class Database and              *)
(* BloomFilter), its GET/SET/DELETE surface (unnamed/part_000: class REPL) *)
(* and the on-disk formats it reads and writes.                            *)
(*                                                                         *)
(* Strings are sequences of character codes.  Files are modelled by their  *)
(* contents: a data file is a sequence of characters, an index (metadata)  *)
(* file and a WAL are sequences of u64 words / strings in the order the    *)
(* code writes them, and they are decoded the way the code decodes them.   *)
(*                                                                         *)
(* REPL (part_000) names the buffer that SET writes and GET reads          *)
(* `memtable`; Database (client.cpp) names the buffer that FLUSH swaps     *)
(* out `write_memtable`.  They are the same object, the active buffer.     *)
(* The GET of part_000 does not read the frozen buffer (read_memtable);    *)
(* the look-up that the spec describes (4.4) is added to it as GetFrozen.  *)
(***************************************************************************)
EXTENDS Naturals, Integers, Sequences, FiniteSets, TLC

(***************************************************************************)
(* Program constants.  MAX, MIN_TH and the filter width are scaled down so *)
(* that flushes, compactions and filter collisions happen within the       *)
(* explored runs; the code's values are 4000000, 4 and 10000.              *)
(***************************************************************************)
MAX == 4
MIN_TH == 2
NOFILTERS == 3
FilterWidth == 5

(***************************************************************************)
(* Bounds of the exploration.                                              *)
(***************************************************************************)
MaxPuts == 5
MaxCrashes == 1

(***************************************************************************)
(* Strings.                                                                *)
(***************************************************************************)
CR == 13
LF == 10
NUL == 0
empty_string == << >>
TOMBSTONE == <<CR, LF>>

Min(a, b) == IF a <= b THEN a ELSE b

\* std::string operator< : lexicographic, a proper prefix is smaller.
StrLess(a, b) ==
  \E i \in 1..(Min(Len(a), Len(b)) + 1) :
     /\ \A j \in 1..(i - 1) : a[j] = b[j]
     /\ \/ i > Len(a) /\ i <= Len(b)
        \/ i <= Len(a) /\ i <= Len(b) /\ a[i] < b[i]

\* The elements of a finite set of strings in increasing order: the
\* iteration order of std::map<string,string>.
RECURSIVE SortedStrings(_)
SortedStrings(S) ==
  IF S = {} THEN << >>
  ELSE LET m == CHOOSE x \in S : \A y \in S : y = x \/ StrLess(x, y)
       IN  <<m>> \o SortedStrings(S \ {m})

\* s[from+1 .. from+n] of a 0-based byte offset, cut at the end of s.
Bytes(s, from, n) ==
  SubSeq(s, from + 1, Min(from + n, Len(s)))

(***************************************************************************)
(* BloomFilter: the set of bits that are set in bitArray.                  *)
(***************************************************************************)
RECURSIVE SumChars(_)
SumChars(s) == IF s = << >> THEN 0 ELSE Head(s) + SumChars(Tail(s))

\* std::hash<std::string> : implementation defined; any fixed function of
\* the key.  This one makes some keys collide and others not.
Hash(key) == SumChars(key) + 2 * Len(key)

FilterBits(key) == { (Hash(key) + i) % FilterWidth : i \in 0..(NOFILTERS - 1) }

EmptyFilter == {}

FilterAdd(bitArray, key) == bitArray \cup FilterBits(key)

FilterContains(bitArray, key) == FilterBits(key) \subseteq bitArray


(***************************************************************************)
(* A memtable is a function from the set of its keys to their values.      *)
(***************************************************************************)
EmptyTable == [k \in {} |-> << >>]

TablePut(t, key, value) ==
  [k \in DOMAIN t \cup {key} |-> IF k = key THEN value ELSE t[k]]

(***************************************************************************)
(* SortedRun files.  A run is [data, meta]: the data file's bytes and the  *)
(* index file's u64 words.                                                 *)
(***************************************************************************)
\* The word at 1-based position i of an index file; a read past the end of
\* a well-formed index never happens in the writers below.
U64At(meta, i) == IF i >= 1 /\ i <= Len(meta) THEN meta[i] ELSE 0

\* Database::FLUSH, the loop that writes read_memtable to temp.bin/temp1.bin.
RECURSIVE FlushWrite(_, _, _, _, _)
FlushWrite(keys, table, file, metadata, tot_size) ==
  IF keys = << >> THEN [data |-> file, meta |-> metadata]
  ELSE LET i == Head(keys)
           j == table[i]
           t1 == tot_size + Len(i)
           t2 == t1 + Len(j)
       IN  FlushWrite(Tail(keys), table, file \o i \o j,
                      metadata \o <<t1, t2>>, t2)

FlushFile(table) ==
  LET r == FlushWrite(SortedStrings(DOMAIN table), table, << >>, <<0>>, 0)
      nentries == Cardinality(DOMAIN table)
  IN  [data |-> r.data, meta |-> r.meta \o <<nentries>>]

RECURSIVE FlushFilterAdd(_, _)
FlushFilterAdd(temp, keys) ==
  IF keys = << >> THEN temp
  ELSE FlushFilterAdd(FilterAdd(temp, Head(keys)), Tail(keys))

(***************************************************************************)
(* merge (client.cpp 472-540): the k-way merge of the runs src[1..n]       *)
(* (src[j] is the code's src[j-1]: the run file j.bin).                    *)
(* The merge state st:                                                     *)
(*   prev, cur[j] = data[j] (a <<key, value>> pair), dpos[j] the read      *)
(*   offset in src[j]'s data file, mpos[j] the number of words read from   *)
(*   its index, pre_idx[j], key (0 = null, else the cursor selected),      *)
(*   flag, and the output: data, meta, tot_len, count, temp (the filter).  *)
(***************************************************************************)
\* The selection with the comparison turned round: the largest key.
MergeSelectLargest(st, j) ==
  IF st.key = 0 \/ StrLess(st.cur[st.key][1], st.cur[j][1]) THEN j ELSE st.key

\* lines 503-506 and 516-519: the cursor with the smallest key so far.
MergeSelect(st, j) ==
  IF st.key = 0 \/ StrLess(st.cur[j][1], st.cur[st.key][1]) THEN j ELSE st.key

\* One pass of the inner for loop, from cursor j down to cursor 1.
RECURSIVE MergeScan(_, _, _)
MergeScan(src, st, j) ==
  IF j = 0 THEN st
  ELSE IF StrLess(st.prev, st.cur[j][1])
       THEN MergeScan(src, [st EXCEPT !.key = MergeSelect(st, j),
                                      !.flag = TRUE], j - 1)
       ELSE IF st.dpos[j] < Len(src[j].data)
            THEN LET key_idx == U64At(src[j].meta, st.mpos[j] + 1)
                     val_idx == U64At(src[j].meta, st.mpos[j] + 2)
                     k == Bytes(src[j].data, st.dpos[j], key_idx - st.pre_idx[j])
                     v == Bytes(src[j].data, st.dpos[j] + Len(k), val_idx - key_idx)
                     s1 == [st EXCEPT !.cur[j] = <<k, v>>,
                                      !.mpos[j] = @ + 2,
                                      !.dpos[j] = @ + Len(k) + Len(v),
                                      !.pre_idx[j] = val_idx]
                 IN  MergeScan(src, [s1 EXCEPT !.key = MergeSelect(s1, j),
                                              !.flag = TRUE], j - 1)
            ELSE MergeScan(src, st, j - 1)

\* The helper lambda Write of merge.
MergeWrite(st, key, val) ==
  LET t1 == st.tot_len + Len(key)
      t2 == t1 + Len(val)
  IN  [st EXCEPT !.tot_len = t2,
                 !.data = @ \o key \o val,
                 !.count = @ + 1,
                 !.meta = @ \o <<t1, t2>>,
                 !.temp = FilterAdd(@, key)]

\* The statements of the while loop after the scan, when flag is set.
MergeEmit(st, last) ==
  LET key == st.cur[st.key][1]
      val == st.cur[st.key][2]
      s1 == [st EXCEPT !.prev = key]
      s2 == IF ~(last /\ val = TOMBSTONE)
            THEN MergeWrite([s1 EXCEPT !.count = @ + 1], key, val)
            ELSE s1
  IN  [s2 EXCEPT !.key = 0]

RECURSIVE MergeLoop(_, _, _)
MergeLoop(src, st, last) ==
  LET s1 == MergeScan(src, [st EXCEPT !.flag = FALSE], Len(src))
  IN  IF ~s1.flag THEN s1
      ELSE MergeLoop(src, MergeEmit(s1, last), last)

MergeInit(src, temp) ==
  [prev |-> << >>,
   cur |-> [j \in 1..Len(src) |-> << << >>, << >> >>],
   dpos |-> [j \in 1..Len(src) |-> 0],
   mpos |-> [j \in 1..Len(src) |-> 1],
   pre_idx |-> [j \in 1..Len(src) |-> U64At(src[j].meta, 1)],
   key |-> 0, flag |-> FALSE,
   data |-> << >>, meta |-> <<0>>, tot_len |-> 0, count |-> 0,
   temp |-> temp]

\* merge(dest, meta_dest, src, meta_src, temp, last): the files written and
\* the filter temp afterwards.
merge(src, temp, last) ==
  LET st == MergeLoop(src, MergeInit(src, temp), last)
  IN  [data |-> st.data, meta |-> st.meta \o <<st.count>>, temp |-> st.temp]

(***************************************************************************)
(* Database::initialize_filter (client.cpp 394-413): the filter rebuilt    *)
(* from a run's files at startup.                                          *)
(***************************************************************************)
RECURSIVE InitFilterLoop(_, _, _, _, _)
InitFilterLoop(run, pos, mpos, pre_idx, filter) ==
  IF ~(pos < Len(run.data)) THEN filter
  ELSE LET idx == U64At(run.meta, mpos + 1)
           key == Bytes(run.data, pos, idx - pre_idx)
           pre1 == U64At(run.meta, mpos + 2)
       IN  InitFilterLoop(run, pre1, mpos + 2, pre1, FilterAdd(filter, key))

initialize_filter(run) ==
  InitFilterLoop(run, 0, 1, U64At(run.meta, 1), EmptyFilter)

(***************************************************************************)
(* Database::binary_search (client.cpp 647-675) on the streams In (data)   *)
(* and metadata (index).  A read that runs past the end of a file stores   *)
(* the bytes it got and sets the stream's failbit, after which seekg and   *)
(* read on that stream do nothing; std::string::resize to a negative       *)
(* (wrapped) length throws std::length_error, which nothing catches.       *)
(* The search state b: lo, hi, idx (three words), mfail / dfail (failbit   *)
(* of metadata / In), pos (In's offset), value, found, abort.              *)
(***************************************************************************)
\* value.resize(n): the old contents cut or padded with NUL.
Resize(value, n) ==
  [i \in 1..n |-> IF i <= Len(value) THEN value[i] ELSE NUL]

\* find_idx(mid): seek to word 2*mid and read three words into idx.
\* probed keeps the values of mid it was called with.
FindIdx(meta, b, mid) ==
  IF b.mfail THEN [b EXCEPT !.probed = @ \cup {mid}]
  ELSE LET avail == Len(meta) - 2 * mid
           n == IF avail >= 3 THEN 3 ELSE IF avail <= 0 THEN 0 ELSE avail
       IN  [b EXCEPT !.idx = [i \in 1..3 |-> IF i <= n THEN meta[2 * mid + i]
                                             ELSE b.idx[i]],
                     !.mfail = (n < 3),
                     !.probed = @ \cup {mid}]

\* In.seekg(off, ios::beg)
SeekIn(b, off) == IF b.dfail THEN b ELSE [b EXCEPT !.pos = off]

\* value.resize(n); In.read(&value[0], n)
ReadIn(data, b, n) ==
  LET v0 == Resize(b.value, n)
  IN  IF b.dfail THEN [b EXCEPT !.value = v0]
      ELSE LET got == Bytes(data, b.pos, n)
           IN  [b EXCEPT !.value = got \o SubSeq(v0, Len(got) + 1, n),
                         !.pos = @ + Len(got),
                         !.dfail = (Len(got) < n)]

RECURSIVE BinarySearchLoop(_, _, _, _)
BinarySearchLoop(data, meta, key, b) ==
  IF ~(b.lo <= b.hi) THEN b
  ELSE LET mid == (b.lo + b.hi) \div 2
           b1 == FindIdx(meta, b, mid)
           b2 == SeekIn(b1, b1.idx[1])
       IN  IF b2.idx[2] < b2.idx[1] THEN [b2 EXCEPT !.abort = TRUE]
           ELSE LET b3 == ReadIn(data, b2, b2.idx[2] - b2.idx[1])
                IN  IF StrLess(key, b3.value)
                    THEN BinarySearchLoop(data, meta, key, [b3 EXCEPT !.hi = mid - 1])
                    ELSE IF key = b3.value
                    THEN IF b3.idx[3] < b3.idx[2] THEN [b3 EXCEPT !.abort = TRUE]
                         ELSE [ReadIn(data, b3, b3.idx[3] - b3.idx[2])
                                 EXCEPT !.found = TRUE]
                    ELSE BinarySearchLoop(data, meta, key, [b3 EXCEPT !.lo = mid + 1])

binary_search(data, meta, entries, key, value) ==
  BinarySearchLoop(data, meta, key,
    [lo |-> 0, hi |-> entries - 1, idx |-> <<0, 0, 0>>,
     mfail |-> FALSE, dfail |-> FALSE, pos |-> 0,
     value |-> value, found |-> FALSE, abort |-> FALSE, probed |-> {}])

\* Database::Find (client.cpp 688-711): entries is the last word of the
\* index.  The result: [found, value, abort].
Find(run, key, value) ==
  LET entries == U64At(run.meta, Len(run.meta))
      b == binary_search(run.data, run.meta, entries, key, value)
  IN  [found |-> b.found, value |-> b.value, abort |-> b.abort]

(***************************************************************************)
(* The engine's state.                                                     *)
(***************************************************************************)
VARIABLES
  \* class Database (memory)
  write_memtable,   \* the active buffer (REPL's memtable)
  read_memtable,    \* the frozen buffer
  mem_size,
  filters,          \* filters[0] = <<active, frozen>>, filters[i] = tier i's
  levels_main,      \* levels_main[i]: the number of runs of tier i
  semids,           \* semids[i]: the merge token of tier i (a semaphore)
  wlock,            \* wlock[i]: tier i's write lock is held
  flushid, compactid,
  flushrunning, ifread_memtable,
  WAL,              \* the path member WAL
  wal,              \* the file the stream wal writes to, or "closed"
  temp,             \* FLUSH's local BloomFilter temp
  \* ./Database on disk
  walfs,            \* the WAL files: name -> contents, or Absent
  tiersfs,          \* tiersfs[i]: directory Tier_i
  \* threads
  client,           \* the thread that constructs the engine and then calls it
  ret,              \* what the call that returns in this step returns
  flusher,          \* flush_thread's position in FLUSH
  compactors,       \* the threads (and the startup call) running compact
  \* bookkeeping of the exploration
  lastAck,          \* per key, the value of the last SET that returned true
  nputs, crashes,
  fresh,            \* no SET was called since the last start
  hist,             \* what the calls and the flushes so far were (or off)
  \* the stand-alone run of merge
  m_src, m_last, m_out,
  \* the stand-alone run of one tier's reader/writer lock
  writer, wcount, wsemids, mtx, reader, rcount,
  lockers,          \* the threads using the lock: where each one is
  \* the end of the process
  down,             \* ~Database and compact_main: where they are
  \* the server (server.cpp)
  resp              \* one connection: its ClientContext, the bytes on
                    \* their way, the replies sent, the engine calls made

engineVars == <<write_memtable, read_memtable, mem_size, filters, levels_main,
                semids, wlock, flushid, compactid, flushrunning,
                ifread_memtable, WAL, wal, temp, walfs, tiersfs>>
threadVars == <<client, ret, flusher, compactors>>
ghostVars == <<lastAck, nputs, crashes, fresh, hist>>
mergeVars == <<m_src, m_last, m_out>>
lockVars == <<writer, wcount, wsemids, mtx, reader, rcount, lockers>>
serverVars == <<resp>>
unitVars == <<mergeVars, lockVars, down, serverVars>>
vars == <<engineVars, threadVars, ghostVars, unitVars>>

(***************************************************************************)
(* The inputs of the exploration.                                          *)
(***************************************************************************)
Keys == { << >>, <<97>> }
Vals == { << >>, <<120>>, TOMBSTONE, <<120, 120, 120, 120>> }

\* What stands for a file that does not exist, and for no value: a
\* sequence that no file and no string is.
Absent == <<-1>>
NoVal == <<-1>>

\* std::vector, indexed from 0.
Size(v) == Cardinality(DOMAIN v)
PushBack(v, x) == [i \in 0..Size(v) |-> IF i < Size(v) THEN v[i] ELSE x]
Vec1(x) == [i \in {0} |-> x]

WalNames == {"WAL.bin", "WAL_temp.bin", "WAL_temp1.bin"}
Exists(name) == walfs[name] # Absent

\* A rename that leaves the files as they are.
WalNoRename(fs, from, to) == fs

\* rename(from, to) on the WAL files; renaming a file to itself changes
\* nothing.
WalRename(fs, from, to) ==
  IF from = to \/ fs[from] = Absent THEN fs
  ELSE [fs EXCEPT ![to] = fs[from], ![from] = Absent]

\* An empty directory Tier_i.
EmptyDir == [bin |-> [j \in {} |-> << >>], meta |-> [j \in {} |-> << >>],
             tmp |-> Absent, tmp1 |-> Absent]

\* The run j of Tier_i as Find, merge and initialize_filter open it.
RunFile(i, j) == [data |-> tiersfs[i].bin[j], meta |-> tiersfs[i].meta[j]]

(***************************************************************************)
(* The client thread's record and the result of its last call.             *)
(***************************************************************************)
At(pc) == [pc |-> pc, key |-> << >>, value |-> << >>, i |-> 0, WAL1 |-> ""]
Idle == At("idle")
NoRet == [op |-> "none", key |-> << >>, value |-> << >>, ok |-> FALSE]
Returned(op, key, value, ok) ==
  [op |-> op, key |-> key, value |-> value, ok |-> ok]

\* The client's record at its next position.
Goto(pc) == IF pc = "idle" THEN Idle ELSE [client EXCEPT !.pc = pc]

\* The process is running and the constructor has returned.
Up == client.pc \in {"idle", "setwait", "get"}

(***************************************************************************)
(* The record of what was called and flushed, kept only by the             *)
(* explorations that ask for it (on): sets, the SETs acknowledged since    *)
(* the last rejected one, the last HistLen of them, in call order;         *)
(* settled, whether the engine was at rest when the last GET was called;   *)
(* flushed, the buffers the flusher froze, in order; drained, whether a    *)
(* compaction has cleared tier 1's run list.                               *)
(***************************************************************************)
HistLen == 2

HistOff == [on |-> FALSE, sets |-> << >>, settled |-> FALSE,
            flushed |-> << >>, drained |-> FALSE]
HistOn == [HistOff EXCEPT !.on = TRUE]

Note(h) == hist' = IF hist.on THEN h ELSE hist

LastOf(s, n) == SubSeq(s, Len(s) - Min(Len(s), n) + 1, Len(s))

\* No background work is pending or running.
Quiescent ==
  /\ flusher = "mlock0" /\ semids[0] = 0 /\ ~flushrunning
  /\ compactors = {} /\ compactid = 0

(***************************************************************************)
(* append_to_WAL (client.cpp 722-732): length, key, length, value, written *)
(* to the file the stream wal has open.                                    *)
(***************************************************************************)
WalRecord(key, val) == <<Len(key)>> \o key \o <<Len(val)>> \o val

append_to_WAL(fs, key, val) ==
  IF wal = "closed" THEN fs
  ELSE [fs EXCEPT ![wal] = @ \o WalRecord(key, val)]

(***************************************************************************)
(* REPL::SET (part_000 75-106).  The section under tier 0's write lock is  *)
(* one step; a SET that finds flushrunning set leaves the lock and waits   *)
(* in T(flushid).                                                          *)
(***************************************************************************)
\* The size check with > for >=.
SetRejectsAbove(key, value) == Len(key) + Len(value) > MAX

\* line 86: the size check.
SetRejects(key, value) == Len(key) + Len(value) >= MAX

\* A SET that writes the record to the WAL before the size check.
SetRejectLogged(key, value) ==
  /\ walfs' = append_to_WAL(walfs, key, value)
  /\ UNCHANGED <<write_memtable, read_memtable, mem_size, filters,
                 levels_main, semids, wlock, flushid, compactid, flushrunning,
                 ifread_memtable, WAL, wal, temp, tiersfs>>
  /\ UNCHANGED lastAck
  /\ Note([hist EXCEPT !.sets = << >>])

\* lines 86-89: what a rejected SET does to the engine.
SetReject(key, value) ==
  /\ UNCHANGED engineVars
  /\ UNCHANGED lastAck
  /\ Note([hist EXCEPT !.sets = << >>])

\* A count that takes off the record that the key had.
CountedNet(key, value) ==
  Len(key) + Len(value)
    - (IF key \in DOMAIN write_memtable
       THEN Len(key) + Len(write_memtable[key]) ELSE 0)

\* line 93: what mem_size grows by.
Counted(key, value) == Len(key) + Len(value)

\* lines 91-105: what an accepted SET does.
SetAccept(key, value) ==
  LET size == mem_size + Counted(key, value)
  IN  /\ walfs' = append_to_WAL(walfs, key, value)
      /\ write_memtable' = TablePut(write_memtable, key, value)
      /\ mem_size' = size
      /\ filters' = [filters EXCEPT ![0][1] = FilterAdd(@, key)]
      /\ IF size >= MAX
         THEN /\ flushrunning' = TRUE
              /\ flushid' = flushid + 1
              /\ semids' = [semids EXCEPT ![0] = @ + 1]
         ELSE UNCHANGED <<flushrunning, flushid, semids>>
      /\ lastAck' = [lastAck EXCEPT ![key] = value]
      /\ Note([hist EXCEPT !.sets = LastOf(Append(@, <<key, value>>), HistLen)])
      /\ UNCHANGED <<read_memtable, levels_main, wlock, compactid,
                     ifread_memtable, WAL, wal, temp, tiersfs>>

\* A SET that goes on whatever flushrunning is.
SetNeverWaits == FALSE

\* line 79: the test of the loop while (flushrunning).
SetMustWait == flushrunning

SetBody(key, value) ==
  IF SetMustWait
  THEN /\ client' = [Idle EXCEPT !.pc = "setwait", !.key = key, !.value = value]
       /\ ret' = NoRet
       /\ UNCHANGED engineVars
       /\ UNCHANGED <<lastAck, hist>>
  ELSE /\ client' = Idle
       /\ ret' = Returned("SET", key, value, ~SetRejects(key, value))
       /\ IF SetRejects(key, value) THEN SetReject(key, value)
                                    ELSE SetAccept(key, value)

\* A call of SET(key, value); DELETE(key) is SET(key, TOMBSTONE).
SET(key, value) ==
  /\ client.pc = "idle"
  /\ nputs < MaxPuts
  /\ nputs' = nputs + 1
  /\ fresh' = FALSE
  /\ SetBody(key, value)
  /\ UNCHANGED <<flusher, compactors, crashes, unitVars>>

\* T(flushid) returns: the loop of line 79 tests flushrunning again.
SetRetry ==
  /\ client.pc = "setwait"
  /\ flushid = 0
  /\ SetBody(client.key, client.value)
  /\ UNCHANGED <<flusher, compactors, nputs, crashes, fresh, unitVars>>

(***************************************************************************)
(* REPL::GET (part_000 15-61).  filters[0][1] here is the code's           *)
(* filters[0][0], and filters[i][j] the code's filters[i][j - 1].          *)
(***************************************************************************)
\* lines 41-55: tier i's runs from the newest to the oldest.
RECURSIVE GetScan(_, _, _, _)
GetScan(i, j, key, value) ==
  IF j = 0 THEN [done |-> FALSE, ok |-> FALSE, value |-> value, abort |-> FALSE]
  ELSE IF FilterContains(filters[i][j], key)
       THEN LET res == Find(RunFile(i, j), key, value)
            IN  IF res.abort
                THEN [done |-> TRUE, ok |-> FALSE, value |-> value, abort |-> TRUE]
                ELSE IF res.found
                THEN [done |-> TRUE, ok |-> res.value # TOMBSTONE,
                      value |-> res.value, abort |-> FALSE]
                ELSE GetScan(i, j - 1, key, res.value)
       ELSE GetScan(i, j - 1, key, value)

\* The look-up of the frozen buffer that the spec (4.4) puts between the
\* active buffer and the tiers: while a flush is in progress, the frozen
\* filter and the frozen buffer, under the frozen buffer's read lock.
GetFrozen(key) ==
  /\ ifread_memtable
  /\ FilterContains(filters[0][2], key)
  /\ key \in DOMAIN read_memtable

\* What GET returns for the value v found first.
GetHit(key, v) ==
  IF v # TOMBSTONE THEN Returned("GET", key, v, TRUE)
  ELSE Returned("GET", key, << >>, FALSE)

\* lines 16-35: the active buffer, and then the frozen one.
GET(key) ==
  /\ client.pc = "idle"
  /\ IF FilterContains(filters[0][1], key) /\ key \in DOMAIN write_memtable
     THEN /\ client' = Idle
          /\ ret' = GetHit(key, write_memtable[key])
     ELSE IF GetFrozen(key)
     THEN /\ client' = Idle
          /\ ret' = GetHit(key, read_memtable[key])
     ELSE /\ client' = [Idle EXCEPT !.pc = "get", !.key = key, !.i = 1]
          /\ ret' = NoRet
  /\ Note([hist EXCEPT !.settled = Quiescent])
  /\ UNCHANGED <<engineVars, flusher, compactors, lastAck, nputs, crashes,
                 fresh, unitVars>>

\* lines 38-60: one tier under its read lock, or the end of the loop.  An
\* exception thrown in Find ends the process.
\* A read_lock that also waits for the tier's merge token.
ReadLockWaitsForMerge(i) == ~wlock[i] /\ semids[i] > 0

\* line 40: read_lock(i) returns, no thread being between write_lock(i)
\* and write_unlock(i).
ReadLockReturns(i) == ~wlock[i]

\* lines 38-40: the GET in progress leaves the loop, or passes the next
\* tier's read_lock.
GetGoesOn ==
  /\ client.pc = "get"
  /\ client.i < Size(levels_main) => ReadLockReturns(client.i)

GetTier ==
  /\ GetGoesOn
  /\ IF client.i >= Size(levels_main)
     THEN /\ client' = Idle
          /\ ret' = Returned("GET", client.key, << >>, FALSE)
     ELSE LET r == GetScan(client.i, levels_main[client.i], client.key,
                              client.value)
             IN  IF r.abort
                 THEN /\ client' = At("aborted")
                      /\ ret' = NoRet
                 ELSE IF r.done
                 THEN /\ client' = Idle
                      /\ ret' = Returned("GET", client.key,
                                         IF r.ok THEN r.value ELSE << >>, r.ok)
                 ELSE /\ client' = [client EXCEPT !.i = @ + 1, !.value = r.value]
                      /\ ret' = NoRet
  /\ UNCHANGED <<engineVars, flusher, compactors, ghostVars, unitVars>>

(***************************************************************************)
(* Database::get_folder (client.cpp 309-319) for a tier that may be new:   *)
(* the directory, and the vectors' new last elements.                      *)
(***************************************************************************)
IsNewTier(i) == i > Len(tiersfs)

FolderFs(i) == IF IsNewTier(i) THEN Append(tiersfs, EmptyDir) ELSE tiersfs
FolderLevels(i) == IF IsNewTier(i) THEN PushBack(levels_main, 0) ELSE levels_main
\* push_semaphores (client.cpp 284-298): the new tier's merge token is 1
\* and its write lock is free.
FolderSemids(i) == IF IsNewTier(i) THEN PushBack(semids, 1) ELSE semids
FolderWlock(i) == IF IsNewTier(i) THEN PushBack(wlock, FALSE) ELSE wlock
FolderFilters(i) == IF IsNewTier(i) THEN PushBack(filters, << >>) ELSE filters

\* A Rename that names every run 1.bin, metadata1.bin.
RenameFirst(d, n) ==
  [bin |-> TablePut(d.bin, 1, d.tmp), meta |-> TablePut(d.meta, 1, d.tmp1),
   tmp |-> Absent, tmp1 |-> Absent]

\* The temp files copied to the run's names and left in place.
RenameCopies(d, n) ==
  [d EXCEPT !.bin = TablePut(d.bin, n, d.tmp), !.meta = TablePut(d.meta, n, d.tmp1)]

\* Database::Rename (client.cpp 453-457) in directory d, whose tier then
\* has n runs: temp.bin becomes n.bin and temp1.bin becomes metadatan.bin.
Rename(d, n) ==
  [bin |-> TablePut(d.bin, n, d.tmp), meta |-> TablePut(d.meta, n, d.tmp1),
   tmp |-> Absent, tmp1 |-> Absent]

\* The process has not been ended by an exception.
Running == client.pc # "aborted"

\* A test that lets a tier hold MIN_TH runs.
AboveThreshold(n) == n > MIN_TH

\* lines 909, 607 and 762: the tier, holding n runs, is to be compacted.
AtThreshold(n) == n >= MIN_TH

\* No connection.
NoServer == << >>

\* The destructor has not been called: destroy is 0, the semaphores exist,
\* compact_main is in its loop.
NotDown ==
  [pc |-> "off", destroy |-> FALSE, removed |-> FALSE, unlocked |-> FALSE,
   cmain |-> "P"]

\* semop on tier i's merge token: P returns when it has taken the token,
\* and at once, with an error, when the semaphore has been removed
\* (IPC_RMID, line 823); P and V leave a removed semaphore alone.
MergeLockReturns(i) == semids[i] > 0 \/ down.removed
SemP(s, i) == IF down.removed THEN s ELSE [s EXCEPT ![i] = @ - 1]
SemV(s, i) == IF down.removed THEN s ELSE [s EXCEPT ![i] = @ + 1]

\* write_lock(i) returns: no other writer, or its semaphores removed
\* (lines 824-827).
WriteLockReturns(i) == ~wlock[i] \/ down.unlocked

\* merge_lock(i) then write_lock(i) of lines 902-903 and 597-598 return:
\* tier i's merge token is there to take and its write lock is free.
AppendUnserialized(i) == WriteLockReturns(i)
MayAppend(i) == MergeLockReturns(i) /\ WriteLockReturns(i)

(***************************************************************************)
(* Database::FLUSH (client.cpp 843-917), one step per stretch between two  *)
(* points where the thread may wait or another thread may see a change.    *)
(***************************************************************************)
\* lines 849-863: merge_lock(0), then the swap under tier 0's write lock.
FSwap ==
  /\ Running /\ flusher = "mlock0"
  /\ MergeLockReturns(0) /\ ~down.destroy
  /\ semids' = SemP(semids, 0)
  /\ write_memtable' = read_memtable
  /\ read_memtable' = write_memtable
  /\ mem_size' = 0
  /\ filters' = [filters EXCEPT ![0] = <<filters[0][2], filters[0][1]>>]
  /\ walfs' = [WalRename(walfs, WAL, "WAL_temp.bin") EXCEPT !["WAL.bin"] = << >>]
  /\ wal' = "WAL.bin"
  /\ ifread_memtable' = TRUE
  /\ flushrunning' = FALSE
  /\ flusher' = "P"
  /\ Note([hist EXCEPT !.flushed = Append(@, write_memtable)])
  /\ UNCHANGED <<levels_main, wlock, flushid, compactid, WAL, temp, tiersfs,
                 client, compactors, lastAck, nputs, crashes, fresh, unitVars>>
  /\ ret' = NoRet

\* line 864: P(flushid).
FP ==
  /\ Running /\ flusher = "P"
  /\ flushid > 0
  /\ flushid' = flushid - 1
  /\ flusher' = "write"
  /\ UNCHANGED <<write_memtable, read_memtable, mem_size, filters, levels_main,
                 semids, wlock, compactid, flushrunning, ifread_memtable, WAL,
                 wal, temp, walfs, tiersfs, client, compactors,
                 ghostVars, unitVars>>
  /\ ret' = NoRet

\* lines 866-894: the frozen buffer written to Tier_1/temp.bin, temp1.bin.
FWrite ==
  /\ Running /\ flusher = "write"
  /\ LET run == FlushFile(read_memtable)
     IN  tiersfs' = [FolderFs(1) EXCEPT ![1].tmp = run.data, ![1].tmp1 = run.meta]
  /\ levels_main' = FolderLevels(1)
  /\ semids' = FolderSemids(1)
  /\ wlock' = FolderWlock(1)
  /\ filters' = FolderFilters(1)
  /\ temp' = FlushFilterAdd(temp, SortedStrings(DOMAIN read_memtable))
  /\ flusher' = "clear"
  /\ UNCHANGED <<write_memtable, read_memtable, mem_size, flushid, compactid,
                 flushrunning, ifread_memtable, WAL, wal, walfs, client, compactors, ghostVars, unitVars>>
  /\ ret' = NoRet

\* lines 896-901: the frozen buffer, its filter and WAL_temp.bin dropped.
FClear ==
  /\ Running /\ flusher = "clear"
  /\ read_memtable' = EmptyTable
  /\ filters' = [filters EXCEPT ![0][2] = EmptyFilter]
  /\ walfs' = [walfs EXCEPT !["WAL_temp.bin"] = Absent]
  /\ ifread_memtable' = FALSE
  /\ flusher' = "append"
  /\ UNCHANGED <<write_memtable, mem_size, levels_main, semids, wlock, flushid,
                 compactid, flushrunning, WAL, wal, temp, tiersfs, client, compactors, ghostVars, unitVars>>
  /\ ret' = NoRet

\* merge_unlock(1) in both branches of line 909.
GivesTokenBack(s, i) == s

\* lines 902, 909-911: the token taken by merge_lock(1) is not given back
\* when the compaction is signalled.
KeepsToken(s, i) == SemP(s, i)

\* The new filter put before the others.
PushFront(fs, f) == <<f>> \o fs

\* lines 904 and 599: filters[i].push_back(f).
PushFilter(fs, f) == Append(fs, f)

\* lines 902-915: merge_lock(1), write_lock(1), the run made visible, and
\* either the compaction woken (it inherits tier 1's token) or the token
\* given back.
FAppend ==
  /\ Running /\ flusher = "append"
  /\ MayAppend(1)
  /\ filters' = [filters EXCEPT ![1] = PushFilter(@, temp)]
  /\ levels_main' = [levels_main EXCEPT ![1] = @ + 1]
  /\ tiersfs' = [tiersfs EXCEPT ![1] = Rename(@, levels_main[1] + 1)]
  /\ IF AtThreshold(levels_main[1] + 1)
     THEN /\ compactid' = compactid + 1
          /\ semids' = KeepsToken(semids, 1)
     ELSE /\ UNCHANGED <<compactid, semids>>
  /\ flusher' = "mlock0"
  /\ UNCHANGED <<write_memtable, read_memtable, mem_size, wlock, flushid,
                 flushrunning, ifread_memtable, WAL, wal, temp, walfs, client,
                 compactors, ghostVars, unitVars>>
  /\ ret' = NoRet

(***************************************************************************)
(* Database::compact_main (client.cpp 621-632) and Database::compact       *)
(* (550-613).  A member of compactors is one running call of compact:      *)
(* [i, pc, temp1, main], main telling the constructor's call from a        *)
(* thread's.                                                               *)
(***************************************************************************)
Compactor(i, main) ==
  [i |-> i, pc |-> "merge", temp1 |-> EmptyFilter, main |-> main]

\* lines 625-630: P(compactid), then a thread that runs compact(1).
CSpawn ==
  /\ Running
  /\ compactid > 0 /\ down.cmain = "P" /\ ~down.destroy
  /\ compactid' = compactid - 1
  /\ compactors' = compactors \cup {Compactor(1, FALSE)}
  /\ UNCHANGED <<write_memtable, read_memtable, mem_size, filters, levels_main,
                 semids, wlock, flushid, flushrunning, ifread_memtable, WAL,
                 wal, temp, walfs, tiersfs, client, flusher, ghostVars,
                 unitVars>>
  /\ ret' = NoRet

\* last taken from the tier the merge writes to.
TargetIsLast(i) == i + 1 = Size(levels_main) - 1

\* line 553
IsLast(i) == i = Size(levels_main) - 1

\* lines 562-572: the runs of tier i, the oldest first.
SourceRuns(i) == [j \in 1..levels_main[i] |-> RunFile(i, j)]

\* lines 553-586: last, the two folders, and multi_way_merge into
\* Tier_(i+1)/temp.bin, temp1.bin.
CMerge(c) ==
  /\ Running /\ c.pc = "merge"
  /\ LET m == merge(SourceRuns(c.i), EmptyFilter, IsLast(c.i))
     IN  /\ tiersfs' = [FolderFs(c.i + 1) EXCEPT ![c.i + 1].tmp = m.data,
                                                 ![c.i + 1].tmp1 = m.meta]
         /\ compactors' = (compactors \ {c})
                            \cup {[c EXCEPT !.pc = "lock", !.temp1 = m.temp]}
  /\ levels_main' = FolderLevels(c.i + 1)
  /\ semids' = FolderSemids(c.i + 1)
  /\ wlock' = FolderWlock(c.i + 1)
  /\ filters' = FolderFilters(c.i + 1)
  /\ UNCHANGED <<write_memtable, read_memtable, mem_size, flushid, compactid,
                 flushrunning, ifread_memtable, WAL, wal, temp, walfs, client,
                 flusher, ghostVars, unitVars>>
  /\ ret' = NoRet

\* lines 588-595: write_lock(i), tier i's files removed, its filters and
\* its count cleared.
CLock(c) ==
  /\ Running /\ c.pc = "lock"
  /\ WriteLockReturns(c.i)
  /\ wlock' = [wlock EXCEPT ![c.i] = TRUE]
  /\ tiersfs' = [tiersfs EXCEPT ![c.i].bin = EmptyDir.bin,
                                ![c.i].meta = EmptyDir.meta]
  /\ filters' = [filters EXCEPT ![c.i] = << >>]
  /\ levels_main' = [levels_main EXCEPT ![c.i] = 0]
  /\ compactors' = (compactors \ {c}) \cup {[c EXCEPT !.pc = "append"]}
  /\ Note([hist EXCEPT !.drained = @ \/ c.i = 1])
  /\ UNCHANGED <<write_memtable, read_memtable, mem_size, semids, flushid,
                 compactid, flushrunning, ifread_memtable, WAL, wal, temp,
                 walfs, client, flusher, lastAck, nputs, crashes, fresh,
                 unitVars>>
  /\ ret' = NoRet

\* lines 597-612: merge_lock(i+1), write_lock(i+1), the merged run made
\* visible, the locks given back, and either compact(i+1) or
\* merge_unlock(i+1).
\* compact(i) ends without merge_unlock(i).
MergeUnlockLost(s, i) == s

\* line 603: merge_unlock(i) once the merged run is in Tier i + 1.
MergeUnlock(s, i) == SemV(s, i)

\* compact returns at line 607 without the call of line 608.
ReturnsAtOnce(c) == {}

\* lines 607-609: the worker that ran compact(i) goes on with compact(i + 1).
Recursion(c) == {Compactor(c.i + 1, c.main)}

CAppend(c) ==
  /\ Running /\ c.pc = "append"
  /\ MayAppend(c.i + 1)
  /\ filters' = [filters EXCEPT ![c.i + 1] = PushFilter(@, c.temp1)]
  /\ levels_main' = [levels_main EXCEPT ![c.i + 1] = @ + 1]
  /\ tiersfs' = [tiersfs EXCEPT ![c.i + 1] = Rename(@, levels_main[c.i + 1] + 1)]
  /\ wlock' = [wlock EXCEPT ![c.i] = FALSE]
  /\ IF AtThreshold(levels_main[c.i + 1] + 1)
     THEN /\ semids' = SemP(MergeUnlock(semids, c.i), c.i + 1)
          /\ compactors' = (compactors \ {c}) \cup Recursion(c)
     ELSE /\ semids' = MergeUnlock(semids, c.i)
          /\ compactors' = compactors \ {c}
  /\ UNCHANGED <<write_memtable, read_memtable, mem_size, flushid, compactid,
                 flushrunning, ifread_memtable, WAL, wal, temp, walfs, client,
                 flusher, ghostVars, unitVars>>
  /\ ret' = NoRet

(***************************************************************************)
(* Startup: the constructor (client.cpp 742-806) on the directory a        *)
(* killed process left behind.                                             *)
(***************************************************************************)
\* initialize_folder (424-442), the loop of line 435: the number of runs
\* of Tier_i for which both files exist.
RECURSIVE CountRuns(_, _)
CountRuns(d, j) ==
  IF j \in DOMAIN d.bin /\ j \in DOMAIN d.meta THEN CountRuns(d, j + 1)
  ELSE j - 1

\* initialize_folder's filters for Tier_i.
FolderFiltersOf(i) ==
  [j \in 1..CountRuns(tiersfs[i], 1) |-> initialize_filter(RunFile(i, j))]

\* A replay that keeps the value a key already has in the buffer.
ReplayKeepsFirst(t, key, val) ==
  IF key \in DOMAIN t THEN t ELSE TablePut(t, key, val)

\* line 341: write_memtable[key] = val.
ReplayPut(t, key, val) == TablePut(t, key, val)

\* initializer_helper (326-346), the replay loop: the records of a WAL
\* file put into [table, size, filter] in the order they were written.
RECURSIVE Replay(_, _)
Replay(file, st) ==
  IF file = << >> THEN st
  ELSE LET klen == file[1]
           key == Bytes(file, 1, klen)
           vlen == U64At(file, klen + 2)
           val == Bytes(file, klen + 2, vlen)
       IN  Replay(SubSeq(file, klen + vlen + 3, Len(file)),
                  [table |-> ReplayPut(st.table, key, val),
                   size |-> st.size + klen + vlen,
                   filter |-> FilterAdd(st.filter, key)])

\* The process is killed (or has ended by an exception) and started
\* again: memory is lost, the directory is kept, and the constructor runs
\* up to the loop over initialize_folder (742-758).
CrashRestart ==
  /\ crashes < MaxCrashes
  /\ crashes' = crashes + 1
  /\ fresh' = TRUE
  /\ write_memtable' = EmptyTable
  /\ read_memtable' = EmptyTable
  /\ mem_size' = 0
  /\ filters' = [i \in 0..Len(tiersfs) |->
                   IF i = 0 THEN <<EmptyFilter, EmptyFilter>>
                   ELSE FolderFiltersOf(i)]
  /\ levels_main' = [i \in 0..Len(tiersfs) |->
                       IF i = 0 THEN 1 ELSE CountRuns(tiersfs[i], 1)]
  /\ semids' = [i \in 0..Len(tiersfs) |-> IF i = 0 THEN 0 ELSE 1]
  /\ wlock' = [i \in 0..Len(tiersfs) |-> FALSE]
  /\ flushid' = 0 /\ compactid' = 0
  /\ flushrunning' = FALSE /\ ifread_memtable' = FALSE
  /\ WAL' = "" /\ wal' = "closed"
  /\ temp' = EmptyFilter
  /\ client' = [At("bootcompact") EXCEPT !.i = Len(tiersfs)]
  /\ ret' = NoRet
  /\ flusher' = "mlock0"
  /\ compactors' = {}
  /\ UNCHANGED <<walfs, tiersfs, lastAck, nputs, hist, unitVars>>

\* A loop that calls compact(j) without merge_lock(j).
BootTakesNothing(s, j) == s

\* line 763: merge_lock(j).
BootMergeLock(s, j) == [s EXCEPT ![j] = @ - 1]

\* lines 760-765, one round of the loop: merge_lock(j); compact(j) for a
\* tier that has MIN_TH runs, and then initialize_memtable.
BootCompact ==
  /\ client.pc = "bootcompact"
  /\ IF client.i = 0
     THEN /\ client' = At("initmem")
          /\ UNCHANGED <<semids, compactors>>
     ELSE IF AtThreshold(levels_main[client.i])
     THEN /\ semids[client.i] > 0
          /\ semids' = BootMergeLock(semids, client.i)
          /\ compactors' = compactors \cup {Compactor(client.i, TRUE)}
          /\ client' = [client EXCEPT !.pc = "bootwait"]
     ELSE /\ client' = [client EXCEPT !.i = @ - 1]
          /\ UNCHANGED <<semids, compactors>>
  /\ UNCHANGED <<write_memtable, read_memtable, mem_size, filters, levels_main,
                 wlock, flushid, compactid, flushrunning, ifread_memtable, WAL,
                 wal, temp, walfs, tiersfs, flusher, ghostVars, unitVars>>
  /\ ret' = NoRet

\* compact(j) has returned to the loop of line 760.
BootWait ==
  /\ client.pc = "bootwait"
  /\ \A c \in compactors : ~c.main
  /\ client' = [client EXCEPT !.pc = "bootcompact", !.i = @ - 1]
  /\ UNCHANGED <<engineVars, flusher, compactors, ghostVars, unitVars>>
  /\ ret' = NoRet

(***************************************************************************)
(* Database::initialize_memtable (client.cpp 354-382).                     *)
(***************************************************************************)
\* initializer_helper (326-353) on the file named name, up to T(flushid):
\* the replay into the active buffer, the file opened again for writing
\* (which empties it), and the flush asked for when mem_size >= MAX.
\* fs is the directory before the call; next is where the client goes on,
\* wait where it waits in T(flushid).
Helper(fs, name, wait, next) ==
  LET r == Replay(fs[name], [table |-> write_memtable, size |-> mem_size,
                             filter |-> filters[0][1]])
  IN  /\ write_memtable' = r.table
      /\ mem_size' = r.size
      /\ filters' = [filters EXCEPT ![0][1] = r.filter]
      /\ walfs' = [fs EXCEPT ![name] = << >>]
      /\ wal' = name
      /\ IF r.size >= MAX
         THEN /\ flushrunning' = TRUE
              /\ flushid' = flushid + 1
              /\ semids' = [semids EXCEPT ![0] = @ + 1]
              /\ client' = Goto(wait)
         ELSE /\ UNCHANGED <<flushrunning, flushid, semids>>
              /\ client' = Goto(next)

\* lines 355-363: which file holds the newer records.
InitMemRename ==
  /\ client.pc = "initmem"
  /\ WAL' = "WAL_temp.bin"
  /\ IF Exists("WAL_temp.bin") /\ Exists("WAL.bin")
     THEN /\ walfs' = WalRename(walfs, "WAL.bin", "WAL_temp1.bin")
          /\ client' = [At("initmem1") EXCEPT !.WAL1 = "WAL_temp1.bin"]
     ELSE /\ UNCHANGED walfs
          /\ client' = [At("initmem1") EXCEPT !.WAL1 =
                          IF ~Exists("WAL.bin") THEN "WAL_temp1.bin"
                          ELSE "WAL.bin"]
  /\ UNCHANGED <<write_memtable, read_memtable, mem_size, filters, levels_main,
                 semids, wlock, flushid, compactid, flushrunning,
                 ifread_memtable, wal, temp, tiersfs, flusher,
                 compactors, ghostVars, unitVars>>
  /\ ret' = NoRet

\* lines 365-366: the older records, those of WAL_temp.bin, replayed.
InitMem1 ==
  /\ client.pc = "initmem1"
  /\ IF Exists(WAL)
     THEN Helper(walfs, WAL, "initwait1", "initclose")
     ELSE /\ client' = [client EXCEPT !.pc = "initclose"]
          /\ UNCHANGED <<write_memtable, mem_size, filters, walfs, wal,
                         flushrunning, flushid, semids>>
  /\ UNCHANGED <<read_memtable, levels_main, wlock, compactid,
                 ifread_memtable, WAL, temp, tiersfs, flusher,
                 compactors, ghostVars, unitVars>>
  /\ ret' = NoRet

\* line 351: T(flushid) returns.
InitWait(from, to) ==
  /\ client.pc = from
  /\ flushid = 0
  /\ client' = Goto(to)
  /\ UNCHANGED <<engineVars, flusher, compactors, ghostVars, unitVars>>
  /\ ret' = NoRet

\* lines 367-370: wal closed and WAL.bin removed if WAL_temp.bin was
\* replayed; WAL names WAL.bin from here on.
InitClose ==
  /\ client.pc = "initclose"
  /\ IF wal = "closed"
     THEN UNCHANGED <<wal, walfs>>
     ELSE /\ wal' = "closed"
          /\ walfs' = [walfs EXCEPT !["WAL.bin"] = Absent]
  /\ WAL' = "WAL.bin"
  /\ client' = [client EXCEPT !.pc = "initmem2"]
  /\ UNCHANGED <<write_memtable, read_memtable, mem_size, filters, levels_main,
                 semids, wlock, flushid, compactid, flushrunning,
                 ifread_memtable, temp, tiersfs, flusher, compactors,
                 ghostVars, unitVars>>
  /\ ret' = NoRet

\* lines 371-380: the newer records replayed from WAL.bin, or a new
\* WAL.bin.
InitMem2 ==
  /\ client.pc = "initmem2"
  /\ IF Exists(client.WAL1)
     THEN Helper(WalRename(walfs, client.WAL1, "WAL.bin"), "WAL.bin",
                 "initwait2", "idle")
     ELSE /\ client' = Idle
          /\ IF ~Exists("WAL.bin")
             THEN /\ walfs' = [walfs EXCEPT !["WAL.bin"] = << >>]
                  /\ wal' = "WAL.bin"
             ELSE UNCHANGED <<walfs, wal>>
          /\ UNCHANGED <<write_memtable, mem_size, filters, flushrunning,
                         flushid, semids>>
  /\ UNCHANGED <<read_memtable, levels_main, wlock, compactid,
                 ifread_memtable, WAL, temp, tiersfs, flusher,
                 compactors, ghostVars, unitVars>>
  /\ ret' = NoRet

(***************************************************************************)
(* The engine: a new database after its constructor has returned, and      *)
(* every step of every thread.                                             *)
(***************************************************************************)
InitEngine ==
  /\ write_memtable = EmptyTable
  /\ read_memtable = EmptyTable
  /\ mem_size = 0
  /\ filters = Vec1(<<EmptyFilter, EmptyFilter>>)
  /\ levels_main = Vec1(1)
  /\ semids = Vec1(0)
  /\ wlock = Vec1(FALSE)
  /\ flushid = 0 /\ compactid = 0
  /\ flushrunning = FALSE /\ ifread_memtable = FALSE
  /\ WAL = "WAL.bin" /\ wal = "WAL.bin"
  /\ temp = EmptyFilter
  /\ walfs = [n \in WalNames |-> IF n = "WAL.bin" THEN << >> ELSE Absent]
  /\ tiersfs = << >>
  /\ client = Idle
  /\ ret = NoRet
  /\ flusher = "mlock0"
  /\ compactors = {}
  /\ lastAck = [k \in Keys |-> NoVal]
  /\ nputs = 0 /\ crashes = 0
  /\ fresh = TRUE

\* The stand-alone runs at rest.
NoMerge == m_src = << >> /\ m_last = FALSE /\ m_out = << >>
LockAtRest ==
  /\ writer = 1 /\ wsemids = 1 /\ mtx = 1 /\ reader = 1
  /\ wcount = 0 /\ rcount = 0
  /\ lockers = << >>
NoLock ==
  /\ LockAtRest
  /\ down = NotDown
  /\ resp = NoServer

Init ==
  /\ InitEngine
  /\ hist = HistOff
  /\ NoMerge /\ NoLock

Next ==
  \/ \E key \in Keys, value \in Vals : SET(key, value)
  \/ SetRetry
  \/ \E key \in Keys : GET(key)
  \/ GetTier
  \/ FSwap
  \/ FP
  \/ FWrite
  \/ FClear
  \/ FAppend
  \/ CSpawn
  \/ \E c \in compactors : CMerge(c)
  \/ \E c \in compactors : CLock(c)
  \/ \E c \in compactors : CAppend(c)
  \/ CrashRestart
  \/ BootCompact
  \/ BootWait
  \/ InitMemRename
  \/ InitMem1
  \/ InitWait("initwait1", "initclose")
  \/ InitClose
  \/ InitMem2
  \/ InitWait("initwait2", "idle")

Spec == Init /\ [][Next]_vars

(***************************************************************************)
(* The engine in service without restarts, with the record hist kept.      *)
(***************************************************************************)
InitHist ==
  /\ InitEngine
  /\ hist = HistOn
  /\ NoMerge /\ NoLock

NextHist ==
  \/ \E key \in Keys, value \in Vals : SET(key, value)
  \/ SetRetry
  \/ \E key \in Keys : GET(key)
  \/ GetTier
  \/ FSwap
  \/ FP
  \/ FWrite
  \/ FClear
  \/ FAppend
  \/ CSpawn
  \/ \E c \in compactors : CMerge(c)
  \/ \E c \in compactors : CLock(c)
  \/ \E c \in compactors : CAppend(c)

SpecHist == InitHist /\ [][NextHist]_vars

(***************************************************************************)
(* The engine in service on a directory that an earlier process filled     *)
(* and left with an empty WAL.bin: one flushed run in Tier_1 and, behind   *)
(* it, either no Tier_2 or a Tier_2 that holds one merged run.  The state  *)
(* is the one the constructor (client.cpp 742-806) returns in.             *)
(***************************************************************************)
\* The tables whose flush left Tier_1's run.
OldTables ==
  { [k \in {<< >>, <<97>>} |-> IF k = << >> THEN TOMBSTONE ELSE <<120>>] }

\* The two tables whose runs the earlier process merged into Tier_2's run.
OldMerged == << [k \in {<<97>>} |-> <<120>>], [k \in {<< >>} |-> <<120>>] >>

\* A directory Tier_i that holds the one run r.
DirOf(r) ==
  [EmptyDir EXCEPT !.bin = [j \in {1} |-> r.data],
                   !.meta = [j \in {1} |-> r.meta]]

OldTier2 ==
  DirOf(merge(<<FlushFile(OldMerged[1]), FlushFile(OldMerged[2])>>,
              EmptyFilter, TRUE))

\* The last value written for key k before the engine was opened.
OldValue(t, two, k) ==
  IF k \in DOMAIN t THEN t[k]
  ELSE IF two /\ k \in DOMAIN OldMerged[2] THEN OldMerged[2][k]
  ELSE IF two /\ k \in DOMAIN OldMerged[1] THEN OldMerged[1][k]
  ELSE NoVal

Reopened(calls) ==
  \E t \in OldTables, two \in BOOLEAN :
    /\ tiersfs = IF two THEN <<DirOf(FlushFile(t)), OldTier2>>
                 ELSE <<DirOf(FlushFile(t))>>
    /\ write_memtable = EmptyTable
    /\ read_memtable = EmptyTable
    /\ mem_size = 0
    /\ filters = [i \in 0..Len(tiersfs) |->
                    IF i = 0 THEN <<EmptyFilter, EmptyFilter>>
                    ELSE FolderFiltersOf(i)]
    /\ levels_main = [i \in 0..Len(tiersfs) |->
                        IF i = 0 THEN 1 ELSE CountRuns(tiersfs[i], 1)]
    /\ semids = [i \in 0..Len(tiersfs) |-> IF i = 0 THEN 0 ELSE 1]
    /\ wlock = [i \in 0..Len(tiersfs) |-> FALSE]
    /\ flushid = 0 /\ compactid = 0
    /\ flushrunning = FALSE /\ ifread_memtable = FALSE
    /\ WAL = "WAL.bin" /\ wal = "WAL.bin"
    /\ temp = EmptyFilter
    /\ walfs = [n \in WalNames |-> IF n = "WAL.bin" THEN << >> ELSE Absent]
    /\ client = Idle
    /\ ret = NoRet
    /\ flusher = "mlock0"
    /\ compactors = {}
    /\ lastAck = [k \in Keys |-> OldValue(t, two, k)]
    /\ nputs = calls /\ crashes = 0
    /\ fresh = TRUE
    /\ hist = HistOff
    /\ NoMerge /\ NoLock

InitReopen == Reopened(0)

SpecReopen == InitReopen /\ [][NextHist]_vars

(***************************************************************************)
(* The end of the process: Database::~Database (client.cpp 815-834) called *)
(* by the thread that made the calls, between two calls, while the flusher *)
(* and the compactions are wherever they are.  down.pc is the destructor's *)
(* position; down.cmain is compact_main's: "P" in its loop, "join" joining *)
(* the threads it started, "exited".                                       *)
(***************************************************************************)
\* The SETs the owner may still call before it destroys the object.
DownPuts == 3

DownStep(pc, next) ==
  /\ Running /\ down.pc = pc
  /\ down' = [down EXCEPT !.pc = next]

\* line 816: destroy = 1.
DDestroy ==
  /\ client = Idle /\ down.pc = "off"
  /\ client' = At("destructor")
  /\ down' = [down EXCEPT !.pc = "unlock0", !.destroy = TRUE]
  /\ ret' = NoRet
  /\ UNCHANGED <<engineVars, flusher, compactors, ghostVars, mergeVars,
                 lockVars, serverVars>>

\* line 817: merge_unlock(0).
DUnlock0 ==
  /\ DownStep("unlock0", "Vcompact")
  /\ semids' = SemV(semids, 0)
  /\ UNCHANGED <<write_memtable, read_memtable, mem_size, filters, levels_main,
                 wlock, flushid, compactid, flushrunning, ifread_memtable, WAL,
                 wal, temp, walfs, tiersfs, threadVars, ghostVars, mergeVars,
                 lockVars, serverVars>>

\* A destructor that does not wake compact_main.
DNoVCompact ==
  /\ DownStep("Vcompact", "Vflush")
  /\ UNCHANGED <<engineVars, threadVars, ghostVars, mergeVars, lockVars, serverVars>>

\* line 818: V(compactid).
DVCompact ==
  /\ DownStep("Vcompact", "Vflush")
  /\ compactid' = compactid + 1
  /\ UNCHANGED <<write_memtable, read_memtable, mem_size, filters, levels_main,
                 semids, wlock, flushid, flushrunning, ifread_memtable, WAL,
                 wal, temp, walfs, tiersfs, threadVars, ghostVars, mergeVars,
                 lockVars, serverVars>>

\* line 819: V(flushid).
DVFlush ==
  /\ DownStep("Vflush", "rmtokens")
  /\ flushid' = flushid + 1
  /\ UNCHANGED <<write_memtable, read_memtable, mem_size, filters, levels_main,
                 semids, wlock, compactid, flushrunning, ifread_memtable, WAL,
                 wal, temp, walfs, tiersfs, threadVars, ghostVars, mergeVars,
                 lockVars, serverVars>>

\* line 823: the merge tokens removed.
DRemoveTokens ==
  /\ Running /\ down.pc = "rmtokens"
  /\ down' = [down EXCEPT !.pc = "rmlocks", !.removed = TRUE]
  /\ UNCHANGED <<engineVars, threadVars, ghostVars, mergeVars, lockVars, serverVars>>

\* lines 824-827: the semaphores of the tiers' reader-writer locks removed.
DRemoveLocks ==
  /\ Running /\ down.pc = "rmlocks"
  /\ down' = [down EXCEPT !.pc = "joinc", !.unlocked = TRUE]
  /\ UNCHANGED <<engineVars, threadVars, ghostVars, mergeVars, lockVars, serverVars>>

\* line 828: compact_main_thread.join().
DJoinCompact ==
  /\ DownStep("joinc", "joinf")
  /\ down.cmain = "exited"
  /\ UNCHANGED <<engineVars, threadVars, ghostVars, mergeVars, lockVars, serverVars>>

\* line 829: flush_thread.join().
DJoinFlush ==
  /\ DownStep("joinf", "close")
  /\ flusher = "exited"
  /\ UNCHANGED <<engineVars, threadVars, ghostVars, mergeVars, lockVars, serverVars>>

\* lines 830-833: wal.close(), and the two wake-up counters removed.
DClose ==
  /\ DownStep("close", "done")
  /\ wal' = "closed"
  /\ UNCHANGED <<write_memtable, read_memtable, mem_size, filters, levels_main,
                 semids, wlock, flushid, compactid, flushrunning,
                 ifread_memtable, WAL, temp, walfs, tiersfs, threadVars,
                 ghostVars, mergeVars, lockVars, serverVars>>

\* FLUSH, lines 849-852: merge_lock(0) returns and destroy is set.
FExit ==
  /\ Running /\ flusher = "mlock0"
  /\ MergeLockReturns(0) /\ down.destroy
  /\ semids' = SemP(semids, 0)
  /\ flusher' = "exited"
  /\ ret' = NoRet
  /\ UNCHANGED <<write_memtable, read_memtable, mem_size, filters, levels_main,
                 wlock, flushid, compactid, flushrunning, ifread_memtable, WAL,
                 wal, temp, walfs, tiersfs, client, compactors, ghostVars,
                 unitVars>>

\* compact_main, lines 625-626: P(compactid) returns and destroy is set.
CExit ==
  /\ Running /\ down.cmain = "P"
  /\ compactid > 0 /\ down.destroy
  /\ compactid' = compactid - 1
  /\ down' = [down EXCEPT !.cmain = "join"]
  /\ ret' = NoRet
  /\ UNCHANGED <<write_memtable, read_memtable, mem_size, filters, levels_main,
                 semids, wlock, flushid, flushrunning, ifread_memtable, WAL,
                 wal, temp, walfs, tiersfs, client, flusher, compactors,
                 ghostVars, mergeVars, lockVars, serverVars>>

\* compact_main, lines 627-629: the threads it started joined, and return.
CJoin ==
  /\ Running /\ down.cmain = "join"
  /\ compactors = {}
  /\ down' = [down EXCEPT !.cmain = "exited"]
  /\ UNCHANGED <<engineVars, threadVars, ghostVars, mergeVars, lockVars, serverVars>>

Destructor ==
  \/ DDestroy
  \/ DUnlock0
  \/ DVCompact
  \/ DVFlush
  \/ DRemoveTokens
  \/ DRemoveLocks
  \/ DJoinCompact
  \/ DJoinFlush
  \/ DClose

Flusher == FSwap \/ FP \/ FWrite \/ FClear \/ FAppend \/ FExit

CompactMain == CSpawn \/ CExit \/ CJoin

CompactThread ==
  \E c \in compactors : CMerge(c) \/ CLock(c) \/ CAppend(c)

\* The steps of a compaction that may have to wait, and the one that never
\* does: CMerge(c) can be taken exactly when c.pc = "merge".
CompactWaits == \E c \in compactors : CLock(c) \/ CAppend(c)
CompactMerges == \E c \in compactors : CMerge(c)
MergePending == \E c \in compactors : c.pc = "merge"

InitShutdown == Reopened(MaxPuts - DownPuts)

NextShutdown ==
  \/ \E key \in Keys, value \in Vals : SET(key, value)
  \/ SetRetry
  \/ \E key \in Keys : GET(key)
  \/ GetTier
  \/ Flusher
  \/ CompactMain
  \/ CompactThread
  \/ Destructor

\* Every thread that can take a step takes one: the flusher, compact_main,
\* the compactions, and the thread in the destructor.  The last conjunct
\* is weak fairness of CompactMerges, with MergePending for its ENABLED.
FairShutdown ==
  /\ WF_vars(Flusher)
  /\ WF_vars(CompactMain)
  /\ WF_vars(CompactWaits)
  /\ WF_vars(Destructor)
  /\ ([]<>~MergePending \/ []<><<CompactMerges>>_vars)

SpecShutdown == InitShutdown /\ [][NextShutdown]_vars /\ FairShutdown

(***************************************************************************)
(* The engine in service with every thread scheduled, from the state FLUSH *)
(* leaves when it has added the MIN_TH-th run to Tier_1 (client.cpp        *)
(* 902-915): the compaction is signalled, Tier 1's token is kept for it.   *)
(***************************************************************************)
\* Tier_1 with the runs of the two tables flushed.
BusyTier1 ==
  [EmptyDir EXCEPT
     !.bin = [j \in 1..MIN_TH |-> FlushFile(OldMerged[j]).data],
     !.meta = [j \in 1..MIN_TH |-> FlushFile(OldMerged[j]).meta]]

InitBusy ==
  /\ tiersfs = <<BusyTier1>>
  /\ write_memtable = EmptyTable
  /\ read_memtable = EmptyTable
  /\ mem_size = 0
  /\ filters = [i \in 0..1 |->
                  IF i = 0 THEN <<EmptyFilter, EmptyFilter>>
                  ELSE FolderFiltersOf(i)]
  /\ levels_main = [i \in 0..1 |-> IF i = 0 THEN 1 ELSE MIN_TH]
  /\ semids = [i \in 0..1 |-> 0]
  /\ wlock = [i \in 0..1 |-> FALSE]
  /\ flushid = 0 /\ compactid = 1
  /\ flushrunning = FALSE /\ ifread_memtable = FALSE
  /\ WAL = "WAL.bin" /\ wal = "WAL.bin"
  /\ temp = EmptyFilter
  /\ walfs = [n \in WalNames |-> IF n = "WAL.bin" THEN << >> ELSE Absent]
  /\ client = Idle
  /\ ret = NoRet
  /\ flusher = "mlock0"
  /\ compactors = {}
  /\ lastAck = [k \in Keys |-> <<120>>]
  /\ nputs = 0 /\ crashes = 0
  /\ fresh = TRUE
  /\ hist = HistOff
  /\ NoMerge /\ NoLock

\* The flush thread, compact_main and the compactions take the steps they
\* can take, and so does the caller waiting in SET.  The last conjunct is
\* weak fairness of CompactMerges, with MergePending for its ENABLED.
FairService ==
  /\ WF_vars(FSwap \/ FP \/ FWrite \/ FClear \/ FAppend)
  /\ WF_vars(CSpawn)
  /\ WF_vars(CompactWaits)
  /\ WF_vars(SetRetry)
  /\ ([]<>~MergePending \/ []<><<CompactMerges>>_vars)

\* The calls: PUTs of one value, and GETs.
NextBusy ==
  \/ \E key \in Keys : SET(key, <<120>>)
  \/ SetRetry
  \/ \E key \in Keys : GET(key)
  \/ GetTier
  \/ FSwap
  \/ FP
  \/ FWrite
  \/ FClear
  \/ FAppend
  \/ CSpawn
  \/ \E c \in compactors : CMerge(c)
  \/ \E c \in compactors : CLock(c)
  \/ \E c \in compactors : CAppend(c)

SpecBusy == InitBusy /\ [][NextBusy]_vars /\ FairService

(***************************************************************************)
(* What a run holds, read through its index: record r lies between the     *)
(* index's words 2r-1, 2r and 2r+1.                                        *)
(***************************************************************************)
RunCount(run) == (Len(run.meta) - 2) \div 2
RunKey(run, r) ==
  Bytes(run.data, run.meta[2 * r - 1], run.meta[2 * r] - run.meta[2 * r - 1])
RunValue(run, r) ==
  Bytes(run.data, run.meta[2 * r], run.meta[2 * r + 1] - run.meta[2 * r])
RunKeys(run) == { RunKey(run, r) : r \in 1..RunCount(run) }

\* The visible runs: those GET can reach, (i, j) with 1 <= j <= levels_main[i].
Tiers == 1..(Size(levels_main) - 1)
VisibleRuns == UNION { { <<i, j>> : j \in 1..levels_main[i] } : i \in Tiers }

\* C10: a filter never misses a key of what it stands for: the active
\* buffer, the frozen buffer, and every visible run, in every state.
C10_NoFalseNegatives ==
  /\ \A k \in DOMAIN write_memtable : FilterContains(filters[0][1], k)
  /\ \A k \in DOMAIN read_memtable : FilterContains(filters[0][2], k)
  /\ \A ij \in VisibleRuns :
       \A k \in RunKeys(RunFile(ij[1], ij[2])) :
         FilterContains(filters[ij[1]][ij[2]], k)

(***************************************************************************)
(* merge on its own: some runs as FLUSH or merge writes them, the oldest   *)
(* first, and one call of merge on them.                                   *)
(***************************************************************************)
MaxRuns == 3
MergeVals == { << >>, <<120>>, TOMBSTONE }
MergeTables ==
  UNION { [D -> MergeVals] : D \in SUBSET Keys }
MergeInputs ==
  UNION { [1..n -> { FlushFile(t) : t \in MergeTables }] : n \in 1..MaxRuns }

InitMerge ==
  /\ InitEngine
  /\ hist = HistOff
  /\ NoLock
  /\ m_src \in MergeInputs
  /\ m_last \in BOOLEAN
  /\ m_out = << >>

MergeStep ==
  /\ m_out = << >>
  /\ m_out' = << merge(m_src, EmptyFilter, m_last) >>
  /\ UNCHANGED <<m_src, m_last, engineVars, threadVars, ghostVars, lockVars, down,
                 serverVars>>

NextMerge == MergeStep

SpecMerge == InitMerge /\ [][NextMerge]_vars

\* The keys of the runs given to merge, and for a key the value in the
\* newest (highest-numbered) run that holds it.
SourceKeys == UNION { RunKeys(m_src[j]) : j \in 1..Len(m_src) }
NewestRun(k) ==
  CHOOSE j \in 1..Len(m_src) :
    /\ k \in RunKeys(m_src[j])
    /\ \A h \in (j + 1)..Len(m_src) : k \notin RunKeys(m_src[h])
ValueIn(run, k) ==
  RunValue(run, CHOOSE r \in 1..RunCount(run) : RunKey(run, r) = k)
NewestValue(k) == ValueIn(m_src[NewestRun(k)], k)

\* The pairs of a run, through its index.
RunPairs(run) ==
  { <<RunKey(run, r), RunValue(run, r)>> : r \in 1..RunCount(run) }

\* The pairs the merged run has to hold.
ExpectedPairs ==
  { <<k, NewestValue(k)>> : k \in
      { k \in SourceKeys : ~(m_last /\ NewestValue(k) = TOMBSTONE) } }

\* C8: the merged run holds, for every key of the tier, exactly the pair
\* with the value of the newest run holding the key, but no pair for a key
\* whose newest value is TOMBSTONE when the merge is the last one, and
\* nothing else.
C8_CompactionPreserves ==
  m_out # << >> => RunPairs(m_out[1]) = ExpectedPairs

(***************************************************************************)
(* The claims about the engine.                                            *)
(***************************************************************************)
\* What a reader is told for the value v found first: a TOMBSTONE and no
\* value at all are both "none".
Visible(v) == IF v = TOMBSTONE THEN NoVal ELSE v

\* What the GET returning in this state told its caller.
Got == IF ret.ok THEN ret.value ELSE NoVal

\* C1: a GET(k) that follows an acknowledged PUT(k, v), with no PUT or
\* DELETE of k in between, returns v, whatever flush or compaction runs
\* meanwhile (no restart in between).
C1_ReadYourWrite ==
  (ret.op = "GET" /\ crashes = 0 /\ Visible(lastAck[ret.key]) # NoVal)
    => Got = lastAck[ret.key]

\* C2: a GET(k) that follows an acknowledged DELETE(k), with no PUT of k in
\* between, returns none.
C2_DeletesStick ==
  (ret.op = "GET" /\ crashes = 0 /\ lastAck[ret.key] = TOMBSTONE) => ~ret.ok

\* C3: after the process was killed and started again, a GET(k) called
\* before any new PUT or DELETE, when the engine is at rest, returns what
\* the last acknowledged PUT or DELETE of k left.
C3_CrashRecovery ==
  (ret.op = "GET" /\ crashes > 0 /\ fresh /\ Quiescent)
    => Got = Visible(lastAck[ret.key])

\* C4: SET (PUT, DELETE) is rejected if and only if |k| + |v| >= MAX.
C4_RejectIff ==
  ret.op = "SET" => (~ret.ok <=> Len(ret.key) + Len(ret.value) >= MAX)

\* A SET of exactly MAX bytes was rejected.
C4_Witness ==
  ret.op = "SET" /\ ~ret.ok /\ Len(ret.key) + Len(ret.value) = MAX

\* C5: a rejected SET changes nothing: the WAL files, both buffers, the
\* filters, mem_size, flushrunning, the flush signal and the merge tokens,
\* the locks and the runs are as before, so that a GET reads what it read
\* before.
C5_RejectedChangesNothing ==
  [][(ret'.op = "SET" /\ ~ret'.ok) => UNCHANGED <<engineVars, lastAck>>]_vars

\* A SET was rejected by an engine that holds records and has a run.
C5_Witness ==
  /\ ret.op = "SET" /\ ~ret.ok
  /\ write_memtable # EmptyTable
  /\ VisibleRuns # {}

\* The search order of the spec on the state as it is: the active buffer,
\* the frozen buffer, then every tier's runs from the newest to the oldest.
RECURSIVE HitInTier(_, _, _)
HitInTier(i, j, k) ==
  IF j = 0 THEN NoVal
  ELSE IF k \in RunKeys(RunFile(i, j)) THEN ValueIn(RunFile(i, j), k)
       ELSE HitInTier(i, j - 1, k)

RECURSIVE HitInTiers(_, _)
HitInTiers(i, k) ==
  IF i >= Size(levels_main) THEN NoVal
  ELSE LET v == HitInTier(i, levels_main[i], k)
       IN  IF v # NoVal THEN v ELSE HitInTiers(i + 1, k)

FirstHit(k) ==
  IF k \in DOMAIN write_memtable THEN write_memtable[k]
  ELSE IF k \in DOMAIN read_memtable THEN read_memtable[k]
  ELSE HitInTiers(1, k)

\* C6: whenever no tier is being rewritten, the first version of a key in
\* the search order is the latest acknowledged write of the key, so a GET
\* cannot be given an older version.
C6_Authority ==
  (Up /\ crashes = 0 /\ \A i \in DOMAIN wlock : ~wlock[i])
    => \A k \in Keys : Visible(FirstHit(k)) = Visible(lastAck[k])

\* The run the flusher has written to Tier_1/temp.bin and temp1.bin.
FlushedRun == [data |-> tiersfs[1].tmp, meta |-> tiersfs[1].tmp1]

\* C7: while the run written by the flusher is not yet a visible run of
\* tier 1, the frozen buffer still holds every record of it.
C7_NoVisibilityGap ==
  flusher \in {"clear", "append"}
    => \A p \in RunPairs(FlushedRun) :
         p[1] \in DOMAIN read_memtable /\ read_memtable[p[1]] = p[2]

\* The keys of a run in file order are strictly increasing.
StrictlyIncreasing(run) ==
  \A r \in 1..(RunCount(run) - 1) : StrLess(RunKey(run, r), RunKey(run, r + 1))

\* C9: in every visible run the keys are strictly increasing in file
\* order.
C9_RunsSorted ==
  \A ij \in VisibleRuns : StrictlyIncreasing(RunFile(ij[1], ij[2]))

\* A run of two keys that merge wrote from the runs FLUSH wrote is visible.
C9_Witness ==
  \E ij \in VisibleRuns : ij[1] = 2 /\ RunCount(RunFile(ij[1], ij[2])) >= 2

(***************************************************************************)
(* One tier's reader/writer lock on its own (client.cpp 183-254): the      *)
(* semaphores writer[i], wsemids[i], mtx[i] and reader[i] and the counters *)
(* wcount[i] and rcount[i] of one tier i, used by the threads 1..NLockers, *)
(* which each call write_lock; write_unlock or read_lock; read_unlock      *)
(* again and again, while thread 0 runs get_folder for a tier that does    *)
(* not exist yet, once.                                                    *)
(*                                                                         *)
(* lockers[t] = [pc, reg, old].  A step is one semaphore operation, or     *)
(* the load, or the store and test, of ++count[i] / --count[i].  wcount    *)
(* and rcount are std::vector<int>: push_semaphores calls push_back on     *)
(* them with no lock held, and a push_back that grows the vector moves     *)
(* the elements to new storage.  A thread that has loaded count[i] and     *)
(* not yet stored it (old) then stores into the storage given up: the      *)
(* vector keeps the value copied.  The test that follows the store reads   *)
(* the value just computed or the vector again, as the build has it.       *)
(* "wsec" and "rsec": the thread is between the lock and the unlock call.  *)
(***************************************************************************)
NLockers == 2

Locker(pc) == [pc |-> pc, reg |-> 0, old |-> FALSE]

LockGoto(t, pc) == lockers' = [lockers EXCEPT ![t].pc = pc]

\* count[i] is loaded into a register.
LockLoad(t, count, pc) ==
  lockers' = [lockers EXCEPT ![t] = [pc |-> pc, reg |-> count, old |-> FALSE]]

\* What the vector holds at i after the store of n by thread t.
LockStored(t, count, n) == IF lockers[t].old THEN count ELSE n

\* The values the test after the store may see.
LockSeen(t, count, n) == {n, LockStored(t, count, n)}

\* A thread calls write_lock or read_lock.
LockCall(t) ==
  /\ lockers[t].pc = "idle"
  /\ \E pc \in {"wl_P_writer", "rl_P_reader"} : LockGoto(t, pc)
  /\ UNCHANGED <<writer, wcount, wsemids, mtx, reader, rcount>>
  /\ UNCHANGED <<engineVars, threadVars, ghostVars, mergeVars, down,
                 serverVars>>

\* write_lock (183-191)
write_lock(t) ==
  /\ \/ /\ lockers[t].pc = "wl_P_writer" /\ writer > 0
        /\ writer' = writer - 1
        /\ LockGoto(t, "wl_load")
        /\ UNCHANGED <<wcount, wsemids, mtx>>
     \/ /\ lockers[t].pc = "wl_load"
        /\ LockLoad(t, wcount, "wl_store")
        /\ UNCHANGED <<writer, wcount, wsemids, mtx>>
     \/ /\ lockers[t].pc = "wl_store"
        /\ wcount' = LockStored(t, wcount, lockers[t].reg + 1)
        /\ \E seen \in LockSeen(t, wcount, lockers[t].reg + 1) :
             LockGoto(t, IF seen = 1 THEN "wl_P_wsemids" ELSE "wl_V_writer")
        /\ UNCHANGED <<writer, wsemids, mtx>>
     \/ /\ lockers[t].pc = "wl_P_wsemids" /\ wsemids > 0
        /\ wsemids' = wsemids - 1
        /\ LockGoto(t, "wl_V_writer")
        /\ UNCHANGED <<writer, wcount, mtx>>
     \/ /\ lockers[t].pc = "wl_V_writer"
        /\ writer' = writer + 1
        /\ LockGoto(t, "wl_P_mtx")
        /\ UNCHANGED <<wcount, wsemids, mtx>>
     \/ /\ lockers[t].pc = "wl_P_mtx" /\ mtx > 0
        /\ mtx' = mtx - 1
        /\ LockGoto(t, "wsec")
        /\ UNCHANGED <<writer, wcount, wsemids>>
  /\ UNCHANGED <<reader, rcount>>
  /\ UNCHANGED <<engineVars, threadVars, ghostVars, mergeVars, down,
                 serverVars>>

\* write_unlock (201-207), called by a thread in its write section.
write_unlock(t) ==
  /\ \/ /\ lockers[t].pc = "wsec"
        /\ LockGoto(t, "wu_P_writer")
        /\ UNCHANGED <<writer, wcount, wsemids, mtx>>
     \/ /\ lockers[t].pc = "wu_P_writer" /\ writer > 0
        /\ writer' = writer - 1
        /\ LockGoto(t, "wu_load")
        /\ UNCHANGED <<wcount, wsemids, mtx>>
     \/ /\ lockers[t].pc = "wu_load"
        /\ LockLoad(t, wcount, "wu_store")
        /\ UNCHANGED <<writer, wcount, wsemids, mtx>>
     \/ /\ lockers[t].pc = "wu_store"
        /\ wcount' = LockStored(t, wcount, lockers[t].reg - 1)
        /\ \E seen \in LockSeen(t, wcount, lockers[t].reg - 1) :
             wsemids' = IF seen = 0 THEN wsemids + 1 ELSE wsemids
        /\ LockGoto(t, "wu_V_writer")
        /\ UNCHANGED <<writer, mtx>>
     \/ /\ lockers[t].pc = "wu_V_writer"
        /\ writer' = writer + 1
        /\ LockGoto(t, "wu_V_mtx")
        /\ UNCHANGED <<wcount, wsemids, mtx>>
     \/ /\ lockers[t].pc = "wu_V_mtx"
        /\ mtx' = mtx + 1
        /\ LockGoto(t, "idle")
        /\ UNCHANGED <<writer, wcount, wsemids>>
  /\ UNCHANGED <<reader, rcount>>
  /\ UNCHANGED <<engineVars, threadVars, ghostVars, mergeVars, down,
                 serverVars>>

\* read_lock (217-222)
read_lock(t) ==
  /\ \/ /\ lockers[t].pc = "rl_P_reader" /\ reader > 0
        /\ reader' = reader - 1
        /\ LockGoto(t, "rl_load")
        /\ UNCHANGED <<rcount, wsemids>>
     \/ /\ lockers[t].pc = "rl_load"
        /\ LockLoad(t, rcount, "rl_store")
        /\ UNCHANGED <<reader, rcount, wsemids>>
     \/ /\ lockers[t].pc = "rl_store"
        /\ rcount' = LockStored(t, rcount, lockers[t].reg + 1)
        /\ \E seen \in LockSeen(t, rcount, lockers[t].reg + 1) :
             LockGoto(t, IF seen = 1 THEN "rl_P_wsemids" ELSE "rl_V_reader")
        /\ UNCHANGED <<reader, wsemids>>
     \/ /\ lockers[t].pc = "rl_P_wsemids" /\ wsemids > 0
        /\ wsemids' = wsemids - 1
        /\ LockGoto(t, "rl_V_reader")
        /\ UNCHANGED <<reader, rcount>>
     \/ /\ lockers[t].pc = "rl_V_reader"
        /\ reader' = reader + 1
        /\ LockGoto(t, "rsec")
        /\ UNCHANGED <<rcount, wsemids>>
  /\ UNCHANGED <<writer, wcount, mtx>>
  /\ UNCHANGED <<engineVars, threadVars, ghostVars, mergeVars, down,
                 serverVars>>

\* read_unlock (249-254), called by a thread in its read section.
read_unlock(t) ==
  /\ \/ /\ lockers[t].pc = "rsec"
        /\ LockGoto(t, "ru_P_reader")
        /\ UNCHANGED <<reader, rcount, wsemids>>
     \/ /\ lockers[t].pc = "ru_P_reader" /\ reader > 0
        /\ reader' = reader - 1
        /\ LockGoto(t, "ru_load")
        /\ UNCHANGED <<rcount, wsemids>>
     \/ /\ lockers[t].pc = "ru_load"
        /\ LockLoad(t, rcount, "ru_store")
        /\ UNCHANGED <<reader, rcount, wsemids>>
     \/ /\ lockers[t].pc = "ru_store"
        /\ rcount' = LockStored(t, rcount, lockers[t].reg - 1)
        /\ \E seen \in LockSeen(t, rcount, lockers[t].reg - 1) :
             wsemids' = IF seen = 0 THEN wsemids + 1 ELSE wsemids
        /\ LockGoto(t, "ru_V_reader")
        /\ UNCHANGED reader
     \/ /\ lockers[t].pc = "ru_V_reader"
        /\ reader' = reader + 1
        /\ LockGoto(t, "idle")
        /\ UNCHANGED <<rcount, wsemids>>
  /\ UNCHANGED <<writer, wcount, mtx>>
  /\ UNCHANGED <<engineVars, threadVars, ghostVars, mergeVars, down,
                 serverVars>>

\* push_semaphores (284-298) called by get_folder (316) for a new tier:
\* wcount.push_back(0) and rcount.push_back(0) move the counters of tier i.
push_semaphores ==
  /\ lockers[0].pc = "get_folder"
  /\ lockers' = [t \in DOMAIN lockers |->
                   IF t = 0 THEN Locker("done")
                   ELSE IF lockers[t].pc \in {"wl_store", "wu_store",
                                              "rl_store", "ru_store"}
                   THEN [lockers[t] EXCEPT !.old = TRUE]
                   ELSE lockers[t]]
  /\ UNCHANGED <<writer, wcount, wsemids, mtx, reader, rcount>>
  /\ UNCHANGED <<engineVars, threadVars, ghostVars, mergeVars, down,
                 serverVars>>

\* push_semaphores (284-298) for tier i: the semaphores at 1, the counters
\* at 0.
InitLock ==
  /\ InitEngine
  /\ hist = HistOff
  /\ NoMerge
  /\ down = NotDown
  /\ resp = NoServer
  /\ writer = 1 /\ wsemids = 1 /\ mtx = 1 /\ reader = 1
  /\ wcount = 0 /\ rcount = 0
  /\ lockers = [t \in 0..NLockers |->
                  IF t = 0 THEN Locker("get_folder") ELSE Locker("idle")]

NextLock ==
  \/ \E t \in DOMAIN lockers : LockCall(t)
  \/ \E t \in DOMAIN lockers : write_lock(t)
  \/ \E t \in DOMAIN lockers : write_unlock(t)
  \/ \E t \in DOMAIN lockers : read_lock(t)
  \/ \E t \in DOMAIN lockers : read_unlock(t)
  \/ push_semaphores

SpecLock == InitLock /\ [][NextLock]_vars

Writers == { t \in DOMAIN lockers : lockers[t].pc = "wsec" }
Readers == { t \in DOMAIN lockers : lockers[t].pc = "rsec" }

\* C12: at most one thread is between write_lock and write_unlock, and
\* no thread is between read_lock and read_unlock while one is.
C12_ReadersWriters ==
  /\ Cardinality(Writers) <= 1
  /\ Writers # {} => Readers = {}

\* The same while no vector has been grown under the threads' hands.
LockUndisturbed ==
  lockers[0].pc = "get_folder" => C12_ReadersWriters

(***************************************************************************)
(* The claims about sequences of calls, on the engine with hist kept.      *)
(***************************************************************************)
\* The last two acknowledged calls were SET(k, v); SET(k, v) (for v =
\* TOMBSTONE: DELETE(k); DELETE(k)) or SET(k, v); DELETE(k), with no other
\* SET in between or since.
Repeated ==
  /\ Len(hist.sets) = 2
  /\ hist.sets[1][1] = hist.sets[2][1]
  /\ hist.sets[1][2] = hist.sets[2][2] \/ hist.sets[2][2] = TOMBSTONE

\* C11: a GET that returns after SET(k, v); SET(k, v) returns what it
\* returns after the one SET(k, v), the last acknowledged value of its key,
\* v for k; after DELETE(k); DELETE(k), and after PUT(k, v); DELETE(k), a
\* GET(k) returns none; also when the second call starts a flush.
C11_Idempotent ==
  (ret.op = "GET" /\ Repeated) => Got = Visible(lastAck[ret.key])

(***************************************************************************)
(* The merge token (client.cpp 561-613, 902-915): a running compaction of  *)
(* tier i holds semids[i], and tier i's runs are its alone.                *)
(***************************************************************************)
\* The run files of tier i and their number.
TierRuns(i) == <<levels_main[i], tiersfs[i].bin, tiersfs[i].meta>>

\* Every running compaction holds its tier's token, and no tier has two.
TokenHeld ==
  /\ \A c \in compactors : semids[c.i] = 0
  /\ \A c, d \in compactors : c.i = d.i => c = d

\* A step taken while compact(i) is between the start of its merge and the
\* clearing of its run list leaves tier i's runs alone, unless it is that
\* clearing, which removes every run file of the tier, or the end of the
\* process.
MergeUndisturbed ==
  \A c \in compactors : c.pc \in {"merge", "lock"} =>
    \/ TierRuns(c.i)' = TierRuns(c.i)
    \/ /\ c.pc = "lock"
       /\ [c EXCEPT !.pc = "append"] \in compactors'
       /\ TierRuns(c.i)' = <<0, EmptyDir.bin, EmptyDir.meta>>
    \/ crashes' # crashes

ClientStep ==
  /\ Up /\ crashes' = crashes
  /\ client' # client \/ nputs' # nputs \/ ret' # NoRet

\* A SET that waited in T(flushid) returns true in this step.
WaiterReleased ==
  /\ ClientStep
  /\ client.pc = "setwait"
  /\ ret'.op = "SET" /\ ret'.ok

\* While flushrunning is raised no step of the client changes the active
\* buffer or a WAL file, and no SET returns.
GateShut ==
  (flushrunning /\ ClientStep) =>
    /\ write_memtable' = write_memtable
    /\ walfs' = walfs
    /\ ret'.op # "SET"
    /\ nputs' # nputs => client'.pc = "setwait"

\* A SET that waited goes on when flushrunning is cleared, and its record
\* goes into the active buffer and to the end of WAL.bin, the file that
\* FLUSH opened when it swapped.
GateOpened ==
  WaiterReleased =>
    /\ ~flushrunning
    /\ wal = "WAL.bin"
    /\ write_memtable' = TablePut(write_memtable, client.key, client.value)
    /\ walfs' = [walfs EXCEPT !["WAL.bin"] =
                   @ \o WalRecord(client.key, client.value)]
    /\ read_memtable' = read_memtable

\* C14: from the PUT that raises flushrunning until FLUSH has swapped the
\* buffers and cleared it, no PUT appends to the WAL or inserts into the
\* active buffer; a PUT that arrives then waits, and when released writes
\* into the new active buffer and the new WAL.
C14_FlushGate == [][GateShut /\ GateOpened]_vars

\* A SET is waiting, the buffers have been swapped, the frozen one is still
\* being written out, and T(flushid) is about to return.
C14_Witness ==
  /\ client.pc = "setwait"
  /\ ~flushrunning /\ flushid = 0
  /\ ifread_memtable /\ read_memtable # EmptyTable
  /\ write_memtable = EmptyTable

(***************************************************************************)
(* Flushes and Tier 1 (client.cpp 849-915), on the engine with hist kept.  *)
(***************************************************************************)
\* Every flush begun has appended its run, and no compaction has cleared
\* Tier 1.
FlushesSettled == flusher = "mlock0" /\ ~hist.drained

\* Tier 1 holds the runs 1..n, run j being what the j-th flush wrote, for
\* the n flushes so far; before the first flush there is no Tier 1.
TierOneIsFlushes ==
  LET n == Len(hist.flushed)
  IN  IF n = 0 THEN Size(levels_main) = 1
      ELSE /\ levels_main[1] = n
           /\ DOMAIN tiersfs[1].bin = 1..n
           /\ DOMAIN tiersfs[1].meta = 1..n
           /\ \A j \in 1..n : RunFile(1, j) = FlushFile(hist.flushed[j])

\* C15: each flush adds one run to Tier 1: when n flushes have settled and
\* no compaction has cleared Tier 1, Tier 1 holds the runs 1..n in the
\* order they were made; and a GET called when the flushes (fewer than
\* MIN_TH) have settled returns the last acknowledged value of its key.
C15_FlushAddsOneRun ==
  /\ FlushesSettled => TierOneIsFlushes
  /\ (ret.op = "GET" /\ hist.settled /\ ~hist.drained)
       => Got = Visible(lastAck[ret.key])

\* A GET called after one flush has settled returns a value that only
\* Tier 1's run holds.
C15_Witness ==
  /\ ret.op = "GET" /\ ret.ok /\ hist.settled
  /\ Len(hist.flushed) = 1 /\ levels_main[1] = 1
  /\ ret.key \notin DOMAIN write_memtable

(***************************************************************************)
(* The flush that fills Tier 1 and the compaction it asks for              *)
(* (client.cpp 902-915, 621-632, 588-612), on the engine with hist kept.   *)
(***************************************************************************)
\* The step in which FLUSH makes its run visible.
FlushAppends == flusher = "append" /\ flusher' = "mlock0"

\* The step in which compact(1), as c, makes the merged run visible and
\* gives its locks back.
CompactionEnds(c) ==
  /\ c \in compactors /\ c.i = 1 /\ c.pc = "append"
  /\ c \notin compactors'

\* The flush that brings Tier 1 to MIN_TH runs signals the Compactor.
FullTierSignalled ==
  (FlushAppends /\ levels_main'[1] >= MIN_TH) => compactid' = compactid + 1

\* When compact(1) ends Tier 1 holds no run, and Tier 2 holds one run more
\* than before, the merged one.
CompactionMovesRuns ==
  \A c \in compactors : CompactionEnds(c) =>
    /\ levels_main'[1] = 0
    /\ DOMAIN tiersfs'[1].bin = {} /\ DOMAIN tiersfs'[1].meta = {}
    /\ levels_main'[2] = levels_main[2] + 1
    /\ DOMAIN tiersfs'[2].bin = DOMAIN tiersfs[2].bin \cup {levels_main'[2]}
    /\ tiersfs'[2].bin[levels_main[2] + 1] = tiersfs[2].tmp
    /\ tiersfs'[2].meta[levels_main[2] + 1] = tiersfs[2].tmp1
    /\ \A j \in DOMAIN tiersfs[2].bin : RunFile(2, j)' = RunFile(2, j)

\* A GET called when Tier 1 has been compacted and nothing is pending or
\* running returns the last acknowledged value of its key.
ReadsAfterCompaction ==
  (ret.op = "GET" /\ hist.settled /\ hist.drained)
    => Got = Visible(lastAck[ret.key])

\* C16: the flush that brings Tier 1 to MIN_TH runs signals the Compactor;
\* when that compaction has finished Tier 1 holds no run and Tier 2 has
\* gained one; and GET still returns every key's latest value.
C16_CompactionAtThreshold ==
  /\ []ReadsAfterCompaction
  /\ [][FullTierSignalled /\ CompactionMovesRuns]_vars

\* A GET called after the compaction of Tier 1 returns a value that only
\* Tier 2's run holds.
C16_Witness ==
  /\ ret.op = "GET" /\ ret.ok /\ hist.settled /\ hist.drained
  /\ levels_main[1] = 0 /\ levels_main[2] = 1
  /\ ret.key \notin DOMAIN write_memtable

(***************************************************************************)
(* Tombstones in compact's merge (client.cpp 553-586, 527-536), on the     *)
(* engine opened on a filled directory.                                    *)
(***************************************************************************)
\* The keys of the runs src, and the value of key k in the newest of them
\* that holds it.
KeysOf(src) == UNION { RunKeys(src[j]) : j \in 1..Len(src) }
WinnerOf(src, k) ==
  LET j == CHOOSE j \in 1..Len(src) :
             /\ k \in RunKeys(src[j])
             /\ \A h \in (j + 1)..Len(src) : k \notin RunKeys(src[h])
  IN  ValueIn(src[j], k)
Deleted(src) == { k \in KeysOf(src) : WinnerOf(src, k) = TOMBSTONE }

\* compact, as c, merges in this step.
Merges(c) ==
  /\ c \in compactors /\ c.pc = "merge"
  /\ c \notin compactors'
  /\ \E d \in compactors' : d.i = c.i /\ d.pc = "lock"

\* The run the merge of c has written.
Merged(c) ==
  [data |-> tiersfs'[c.i + 1].tmp, meta |-> tiersfs'[c.i + 1].tmp1]

\* The merge of c leaves the deleted keys out, or keeps their tombstones.
DropsTombstones(c) ==
  \A k \in Deleted(SourceRuns(c.i)) : k \notin RunKeys(Merged(c))
KeepsTombstones(c) ==
  \A k \in Deleted(SourceRuns(c.i)) : <<k, TOMBSTONE>> \in RunPairs(Merged(c))

\* The tier c writes to is the last of the tiers once it exists.
IntoLastTier(c) == c.i + 1 = Size(levels_main') - 1

\* C17 as stated: a compaction drops the records whose winning value is
\* TOMBSTONE exactly when the tier it writes to is the last tier, and keeps
\* the tombstones otherwise.
C17_DropsAtLastTier ==
  [][\A c \in compactors : Merges(c) =>
       IF IntoLastTier(c) THEN DropsTombstones(c) ELSE KeepsTombstones(c)]_vars

\* C17 as the code has it: a compaction drops the records whose winning
\* value is TOMBSTONE exactly when the tier it writes to did not exist
\* when it started (it creates the new last tier), and keeps the
\* tombstones when it writes into a tier that exists, the last one
\* included.
C17_DropsIntoNewTier ==
  [][\A c \in compactors : Merges(c) =>
       IF IsNewTier(c.i + 1) THEN DropsTombstones(c) ELSE KeepsTombstones(c)]_vars

\* compact(1) has merged runs in which a key is deleted into the new
\* Tier 2, and its run does not hold the key.
C17_Witness ==
  \E c \in compactors :
    /\ c.i = 1 /\ c.pc = "lock"
    /\ Size(levels_main) = 3 /\ levels_main[2] = 0
    /\ Deleted(SourceRuns(1)) # {}
    /\ \A k \in Deleted(SourceRuns(1)) :
         k \notin RunKeys([data |-> tiersfs[2].tmp, meta |-> tiersfs[2].tmp1])

(***************************************************************************)
(* Who changes what under which lock (client.cpp 588-605, 853-915,         *)
(* 309-319; part_000 76-104).                                              *)
(***************************************************************************)
\* The step is a section of the code under write_lock(0): the swap of
\* FLUSH (853-863) or the body of a SET (76-104).
UnderWriteLock0 ==
  \/ flusher = "mlock0" /\ flusher' = "P"
  \/ Up /\ ret'.op = "SET"

\* The step is the section of FLUSH under write_lock1 (896-901).
UnderWriteLock1 == flusher = "clear" /\ flusher' = "append"

\* The step is a section under write_lock(i), i >= 1: the append of FLUSH
\* (903-915, i = 1), or compact's clearing of tier i (588-595), or
\* compact's append to tier i (598-603).
UnderWriteLock(i) ==
  \/ i = 1 /\ FlushAppends
  \/ \E c \in compactors :
       \/ c.i = i /\ c.pc = "lock" /\ [c EXCEPT !.pc = "append"] \in compactors'
       \/ c.i + 1 = i /\ c.pc = "append" /\ c \notin compactors'

\* The step creates or changes tier i's run list or filter list.
TierChanged(i) ==
  \/ i \notin DOMAIN levels_main \/ i \notin DOMAIN filters
  \/ levels_main'[i] # levels_main[i]
  \/ filters'[i] # filters[i]

ActiveChanged ==
  write_memtable' # write_memtable \/ filters'[0][1] # filters[0][1]
FrozenChanged ==
  read_memtable' # read_memtable \/ filters'[0][2] # filters[0][2]

\* C18: every change of a tier's run list or filter list, of a buffer or
\* of a buffer's filter is made by a thread that holds the corresponding
\* write lock: tier 0's for the active buffer and the swap, the frozen
\* buffer's for clearing it, tier i's for tier i (the start of the process
\* left aside).
C18_MutationsLocked ==
  [][crashes' = crashes =>
       /\ ActiveChanged => UnderWriteLock0
       /\ FrozenChanged => (UnderWriteLock0 \/ UnderWriteLock1)
       /\ \A i \in (DOMAIN levels_main' \cup DOMAIN filters') \ {0} :
            TierChanged(i) => UnderWriteLock(i)]_vars

\* The same with get_folder and initializer_helper left aside: the steps
\* that only create a tier, and the replay of the WAL files.
C18_BesidesCreation ==
  [][(crashes' = crashes /\ Up) =>
       /\ ActiveChanged => UnderWriteLock0
       /\ FrozenChanged => (UnderWriteLock0 \/ UnderWriteLock1)
       /\ \A i \in DOMAIN levels_main \ {0} :
            TierChanged(i) => UnderWriteLock(i)]_vars

(***************************************************************************)
(* The swap of FLUSH (client.cpp 853-863) and the two buffers.             *)
(***************************************************************************)
\* The step is FLUSH's section under write_lock(0).
Swaps == flusher = "mlock0" /\ flusher' = "P"

\* What the section leaves when it gives the lock back.
SwapLeaves ==
  /\ write_memtable' = EmptyTable
  /\ filters'[0][1] = EmptyFilter
  /\ read_memtable' = write_memtable
  /\ filters'[0][2] = filters[0][1]
  /\ mem_size' = 0
  /\ wal # "closed"
  /\ walfs'["WAL_temp.bin"] = walfs[wal]
  /\ walfs'["WAL.bin"] = << >>
  /\ wal' = "WAL.bin"
  /\ ~flushrunning'

\* The frozen buffer and its filter hold data only between the swap and
\* the clearing of lines 896-901.
FrozenOnlyInFlush ==
  (read_memtable # EmptyTable \/ filters[0][2] # EmptyFilter)
    => flusher \in {"P", "write", "clear"}

\* C19: only the active buffer and, during a flush, the frozen buffer hold
\* data; at every swap the buffer that becomes active and its filter are
\* empty, mem_size is 0, the old WAL has the staging name, the new WAL.bin
\* is empty and flushrunning is cleared, all within the section under
\* tier 0's write lock.
C19_Swap == []FrozenOnlyInFlush /\ [][Swaps => SwapLeaves]_vars

\* The swap has just frozen a buffer that holds data: the active buffer is
\* empty, the old WAL is WAL_temp.bin, WAL.bin is new.
C19_Witness ==
  /\ flusher = "P" /\ ~flushrunning
  /\ read_memtable # EmptyTable /\ write_memtable = EmptyTable
  /\ mem_size = 0
  /\ walfs["WAL_temp.bin"] \notin {Absent, << >>}
  /\ walfs["WAL.bin"] = << >>

(***************************************************************************)
(* What a GET waits for (part_000 15-61).                                  *)
(***************************************************************************)
\* The GET in progress is about to take tier client.i's read lock.
AtReadLock == client.pc = "get" /\ client.i < Size(levels_main)

STAR == 42
DOLLAR == 36
CRLF == <<CR, LF>>
VerbSET == <<83, 69, 84>>
VerbGET == <<71, 69, 84>>
VerbDEL == <<68, 69, 76>>

\* The frames a connection carries, and the reads they arrive in.
MaxCmds == 2
MaxRecv == 2

\* std::to_string of a size.
RECURSIVE to_string(_)
to_string(n) ==
  IF n < 10 THEN <<48 + n>> ELSE to_string(n \div 10) \o <<48 + (n % 10)>>

\* std::stoi: white space skipped, a sign, the digits up to the first
\* character that is none; std::invalid_argument when there is no digit.
IsSpace(c) == c \in {9, 10, 11, 12, 13, 32}
RECURSIVE SkipSpace(_)
SkipSpace(s) ==
  IF s # << >> /\ IsSpace(s[1]) THEN SkipSpace(Tail(s)) ELSE s
RECURSIVE Digits(_, _, _)
Digits(s, v, n) ==
  IF s # << >> /\ s[1] \in 48..57
  THEN Digits(Tail(s), 10 * v + s[1] - 48, n + 1)
  ELSE [val |-> v, n |-> n]
stoi(s) ==
  LET t == SkipSpace(s)
      signed == t # << >> /\ t[1] \in {43, 45}
      d == Digits(IF signed THEN Tail(t) ELSE t, 0, 0)
  IN  IF d.n = 0 THEN [throws |-> TRUE, val |-> 0]
      ELSE [throws |-> FALSE,
            val |-> IF signed /\ t[1] = 45 THEN 0 - d.val ELSE d.val]

\* buffer.find("\r\n"): the position, counted from 0, or npos.
npos == 0 - 1
FindCRLF(b) ==
  LET at == { i \in 1..(Len(b) - 1) : b[i] = CR /\ b[i + 1] = LF }
  IN  IF at = {} THEN npos
      ELSE (CHOOSE i \in at : \A j \in at : i <= j) - 1

\* A size_t that came from an int: a negative n stands for 2^64 + n.
\* substr(pos, n), erase(0, n), size() < n.
Substr(b, pos, n) ==
  SubSeq(b, pos + 1, IF n < 0 THEN Len(b) ELSE Min(Len(b), pos + n))
Erase(b, n) == SubSeq(b, (IF n < 0 THEN Len(b) ELSE Min(Len(b), n)) + 1, Len(b))
SizeLess(size, n) == n < 0 \/ size < n

\* The replies: a line, or "$" + to_string(size) + "\r\n" + value + "\r\n".
Line(text) == [text |-> text, size |-> << >>, value |-> << >>]
BulkString(value) ==
  [text |-> "$", size |-> to_string(Len(value)), value |-> value]

\* lines 191-192: the reply to SET.
SetReply(ok) == IF ok THEN Line("+OK\r\n") ELSE Line("-ERR\r\n")

\* lines 196-201: the reply to GET.
GetReply(res, value) == IF res THEN BulkString(value) ELSE Line("$-1\r\n")

\* The frame of a command: *N, then $L and the bytes for each argument.
RECURSIVE Bulks(_)
Bulks(a) ==
  IF a = << >> THEN << >>
  ELSE <<DOLLAR>> \o to_string(Len(a[1])) \o CRLF \o a[1] \o CRLF
         \o Bulks(Tail(a))
Array(a) == <<STAR>> \o to_string(Len(a)) \o CRLF \o Bulks(a)

\* SET a x, GET a.
GoodCmds == { <<VerbSET, <<97>>, <<120>>>>, <<VerbGET, <<97>>>> }

\* DEL a; GET with no key; *0; "+a\r\n"; "*x\r\n"; "*1\r\n#1\r\na\r\n".
BadFrames ==
  { Array(<<VerbDEL, <<97>>>>), Array(<<VerbGET>>), Array(<< >>),
    <<43, 97>> \o CRLF, <<STAR, 120>> \o CRLF,
    <<STAR, 49>> \o CRLF \o <<35, 49>> \o CRLF \o <<97>> \o CRLF }

Sent ==
  { [good |-> TRUE, args |-> a, frame |-> Array(a)] : a \in GoodCmds }
    \cup { [good |-> FALSE, args |-> << >>, frame |-> f] : f \in BadFrames }

RECURSIVE Stream(_)
Stream(cmds) ==
  IF cmds = << >> THEN << >> ELSE cmds[1].frame \o Stream(Tail(cmds))

\* ClientContext's constructor (line 56) for a connection that will carry
\* cmds.
Connection(cmds) ==
  [buffer |-> << >>, args |-> << >>, expected_args |-> 0,
   expected_bulk_length |-> 0, state |-> "PARSE_TYPE", pc |-> "off",
   wire |-> Stream(cmds), sent |-> << >>, calls |-> << >>, cmds |-> cmds,
   reads |-> << >>]

ServerStep(r) ==
  /\ resp' = r
  /\ UNCHANGED <<engineVars, threadVars, ghostVars, mergeVars, lockVars, down>>

\* main, lines 322-327: what has arrived is appended to the buffer and
\* handle_client is queued.  The handler of the bytes before has returned,
\* or is going round its loop and goes on with what it finds.
Recv(n) ==
  /\ resp # NoServer /\ resp.pc \in {"off", "spin"}
  /\ n \in 1..Len(resp.wire)
  /\ n = Len(resp.wire) \/ Len(resp.reads) + 1 < MaxRecv
  /\ ServerStep([resp EXCEPT !.buffer = @ \o SubSeq(resp.wire, 1, n),
                             !.wire = SubSeq(@, n + 1, Len(@)),
                             !.reads = Append(@, n),
                             !.pc = "loop"])

\* handle_client, lines 168-186: the block of PARSE_TYPE.
HType ==
  /\ resp # NoServer /\ resp.pc = "loop" /\ resp.state = "PARSE_TYPE"
  /\ IF resp.buffer = << >> THEN ServerStep([resp EXCEPT !.pc = "off"])
     ELSE LET type == resp.buffer[1]
              b == Tail(resp.buffer)
              pos == FindCRLF(b)
              n == stoi(Substr(b, 0, pos))
          IN  IF type # STAR
              THEN ServerStep([resp EXCEPT
                     !.sent = Append(@, Line("-ERR Unsupported command\r\n")),
                     !.buffer = << >>, !.pc = "off"])
              ELSE IF pos = npos
              THEN ServerStep([resp EXCEPT !.buffer = b, !.pc = "off"])
              ELSE IF n.throws
              THEN ServerStep([resp EXCEPT !.buffer = b, !.pc = "aborted"])
              ELSE ServerStep([resp EXCEPT
                     !.expected_args = n.val,
                     !.buffer = Erase(b, pos + 2),
                     !.args = << >>,
                     !.state = "PARSE_ARGUMENTS"])

\* lines 189-207: the command in args carried out and answered.
Dispatch ==
  LET args == resp.args
      answered(r, c) ==
        ServerStep([resp EXCEPT !.sent = Append(@, r), !.calls = @ \o c,
                                !.state = "PARSE_TYPE"])
  IN  IF args = << >>
      THEN answered(Line("-ERR Empty command\r\n"), << >>)
      ELSE IF args[1] = VerbSET /\ Len(args) = 3
      THEN \E ok \in BOOLEAN :
             answered(SetReply(ok),
                      <<[op |-> "SET", key |-> args[2], value |-> args[3],
                         ok |-> ok]>>)
      ELSE IF args[1] = VerbGET /\ Len(args) = 2
      THEN \E res \in BOOLEAN, value \in {<< >>, <<120>>} :
             /\ ~res => value = << >>
             /\ answered(GetReply(res, value),
                         <<[op |-> "GET", key |-> args[2], value |-> value,
                            ok |-> res]>>)
      ELSE answered(Line("-ERR Unknown command\r\n"), << >>)

\* lines 187-233: one round of the loop of PARSE_ARGUMENTS.
HArgument ==
  /\ resp # NoServer /\ resp.pc = "loop" /\ resp.state = "PARSE_ARGUMENTS"
  /\ LET pos == FindCRLF(resp.buffer)
         n == stoi(Substr(resp.buffer, 1, pos - 1))
         b == Erase(resp.buffer, pos + 2)
     IN  IF resp.expected_args = 0 THEN Dispatch
         ELSE IF Len(resp.buffer) < 4
         THEN ServerStep([resp EXCEPT !.pc = "spin"])
         ELSE IF resp.buffer[1] # DOLLAR
         THEN ServerStep([resp EXCEPT
                !.sent = Append(@, Line("-ERR Protocol error\r\n")),
                !.buffer = << >>, !.state = "PARSE_TYPE"])
         ELSE IF pos = npos
         THEN ServerStep([resp EXCEPT !.pc = "spin"])
         ELSE IF n.throws
         THEN ServerStep([resp EXCEPT !.pc = "aborted"])
         ELSE IF SizeLess(Len(b), n.val + 2)
         THEN ServerStep([resp EXCEPT !.expected_bulk_length = n.val,
                                      !.buffer = b, !.pc = "spin"])
         ELSE ServerStep([resp EXCEPT
                !.expected_bulk_length = n.val,
                !.args = Append(@, Substr(b, 0, n.val)),
                !.buffer = Erase(b, n.val + 2),
                !.expected_args = @ - 1])

InitServer ==
  /\ InitEngine
  /\ hist = HistOff
  /\ NoMerge /\ LockAtRest
  /\ down = NotDown
  /\ \E cmds \in UNION { [1..n -> Sent] : n \in 1..MaxCmds } :
       resp = Connection(cmds)

NextServer ==
  \/ \E n \in 1..Len(resp.wire) : Recv(n)
  \/ HType
  \/ HArgument

SpecServer == InitServer /\ [][NextServer]_vars

(***************************************************************************)
(* The epoll loop of main (part_002 299-333), the pool (119-140) and the   *)
(* flag that handle_client clears when it starts (166), for one            *)
(* connection.  resp is [main, count0, events, flag, tasks, workers,       *)
(* started, erased]: main's position, whether the last recv returned 0,    *)
(* the events taken, the atomic flag, the tasks queued, each worker's      *)
(* position ("idle", "called": in handle_client before line 166, "run":    *)
(* past it), the handlers started, and whether the context was erased.     *)
(***************************************************************************)
PoolThreads == 2
MaxEvents == 3

Pool ==
  [main |-> "wait", count0 |-> FALSE, events |-> 0, flag |-> FALSE,
   tasks |-> 0, workers |-> [w \in 1..PoolThreads |-> "idle"],
   started |-> 0, erased |-> FALSE]

\* lines 306-317: epoll_wait reports the connection readable.
MEvent ==
  /\ resp.main = "wait" /\ ~resp.erased /\ resp.events < MaxEvents
  /\ ServerStep([resp EXCEPT !.main = "recv", !.events = @ + 1])

\* lines 320-322: the recv loop appends to ctx.buffer until recv returns
\* 0 (the peer closed) or -1.
MRecv ==
  /\ resp.main = "recv"
  /\ \E closed \in BOOLEAN :
       ServerStep([resp EXCEPT !.main = "enqueue", !.count0 = closed])

\* line 323 and ThreadPool::enqueue (119-125).
MEnqueue ==
  /\ resp.main = "enqueue"
  /\ ServerStep([resp EXCEPT !.main = "spin", !.tasks = @ + 1])

\* line 324: while (flag.test_and_set(memory_order_acquire));
MTestAndSet ==
  /\ resp.main = "spin" /\ ~resp.flag
  /\ ServerStep([resp EXCEPT !.flag = TRUE,
                             !.main = IF resp.count0 THEN "erase" ELSE "wait"])

\* lines 325-329: the connection closed, clients.erase(it).
MErase ==
  /\ resp.main = "erase"
  /\ ServerStep([resp EXCEPT !.main = "wait", !.erased = TRUE])

\* ThreadPool::worker (128-140): a task taken from the queue and called.
WTake(w) ==
  /\ resp.workers[w] = "idle" /\ resp.tasks > 0
  /\ ServerStep([resp EXCEPT !.tasks = @ - 1, !.workers[w] = "called"])

\* line 166: flag.clear(memory_order_release).
WClear(w) ==
  /\ resp.workers[w] = "called"
  /\ ServerStep([resp EXCEPT !.flag = FALSE, !.workers[w] = "run",
                             !.started = @ + 1])

\* lines 167-238: handle_client returns.
WReturn(w) ==
  /\ resp.workers[w] = "run"
  /\ ServerStep([resp EXCEPT !.workers[w] = "idle"])

InitPool ==
  /\ InitEngine
  /\ hist = HistOff
  /\ NoMerge /\ LockAtRest
  /\ down = NotDown
  /\ resp = Pool

NextPool ==
  \/ MEvent
  \/ MRecv
  \/ MEnqueue
  \/ MTestAndSet
  \/ MErase
  \/ \E w \in 1..PoolThreads : WTake(w)
  \/ \E w \in 1..PoolThreads : WClear(w)
  \/ \E w \in 1..PoolThreads : WReturn(w)

SpecPool == InitPool /\ [][NextPool]_vars

(***************************************************************************)
(* C21.  Shutdown ends.                                                    *)
(***************************************************************************)
\* The destructor has set destroy and signalled both wake-up counters.
Signalled == down.pc \in {"rmtokens", "rmlocks", "joinc", "joinf", "close"}

\* Both threads have returned, every compaction thread with them, the two
\* joins have returned and the WAL is closed.
ShutDown ==
  /\ down.pc = "done"
  /\ flusher = "exited" /\ down.cmain = "exited" /\ compactors = {}
  /\ wal = "closed"

\* C21: once the destructor has set destroy and signalled flushid and
\* compactid, the flusher, compact_main and every compaction thread return,
\* wherever they were, the joins return and the WAL is closed.
C21_ShutdownEnds == Signalled ~> ShutDown

\* The destructor has signalled while the flusher and compact_main are in
\* their loops and a compaction thread is running.
C21_Witness ==
  /\ Signalled
  /\ flusher # "exited" /\ down.cmain = "P"
  /\ \E c \in compactors : ~c.main

(***************************************************************************)
(* C22.  The tiers when startup finishes.                                  *)
(***************************************************************************)
\* Every tier i >= 1 has fewer than MIN_TH runs and its merge token is free.
BelowAndFree ==
  \A i \in Tiers : levels_main[i] < MIN_TH /\ semids[i] = 1

\* The constructor returns: initialize_memtable ends (line 380 or 351).
StartupEnds ==
  /\ client.pc \in {"initmem2", "initwait2"}
  /\ client'.pc = "idle"

\* A compaction of tier i has been signalled or is running.
CompactionDue(i) ==
  \/ i = 1 /\ compactid > 0
  \/ \E c \in compactors : c.i = i

\* Every tier that has MIN_TH runs or whose token is taken is one whose
\* compaction has been signalled or is running.
FullTiersDue ==
  \A i \in Tiers :
    (levels_main[i] >= MIN_TH \/ semids[i] # 1) => CompactionDue(i)

\* C22 as stated: when the constructor returns, every tier i >= 1 has fewer
\* than MIN_TH runs and every tier's merge token is free.
C22_StartupCompacted == [][StartupEnds => BelowAndFree']_vars

\* C22, amended: when the loop of lines 760-765 ends, every tier i >= 1 has
\* fewer than MIN_TH runs and every merge token is free; when the
\* constructor returns, a tier with MIN_TH runs or a taken token is one
\* that the flush asked for by the replay of the WAL has filled meanwhile,
\* its compaction signalled or running.
C22_AfterStartupLoop ==
  /\ [](client.pc = "initmem" => BelowAndFree)
  /\ [][StartupEnds => FullTiersDue']_vars

\* The constructor's compact(j) has returned to the loop, the tier it found
\* with MIN_TH runs emptied into the next.
C22_Witness ==
  /\ client.pc = "bootwait" /\ compactors = {}
  /\ levels_main[client.i] = 0 /\ levels_main[client.i + 1] >= 1
  /\ BelowAndFree

(***************************************************************************)
(* C23, C24.  The replies of the server.                                   *)
(***************************************************************************)
\* Everything the peer sent has been read and handle_client has nothing
\* left to do.
ServerAtRest ==
  /\ resp.wire = << >>
  /\ resp.pc \in {"off", "spin", "aborted"}

\* The engine call c is the one that command cmd asks for.
CallOf(cmd, c) ==
  /\ c.key = cmd.args[2]
  /\ IF cmd.args[1] = VerbSET
     THEN c.op = "SET" /\ c.value = cmd.args[3]
     ELSE c.op = "GET"

\* The reply that goes with the engine's answer to call c.
ReplyTo(c) ==
  IF c.op = "SET"
  THEN IF c.ok THEN Line("+OK\r\n") ELSE Line("-ERR\r\n")
  ELSE IF c.ok
  THEN [text |-> "$", size |-> to_string(Len(c.value)), value |-> c.value]
  ELSE Line("$-1\r\n")

\* Command i was carried out by the j-th engine call and answered by the
\* i-th reply.
Answered(i, j) ==
  /\ i <= Len(resp.sent) /\ j <= Len(resp.calls)
  /\ CallOf(resp.cmds[i], resp.calls[j])
  /\ resp.sent[i] = ReplyTo(resp.calls[j])

AllGood == \A i \in DOMAIN resp.cmds : resp.cmds[i].good

\* C23: each complete frame SET key value or GET key is answered by
\* exactly one reply: +OK or -ERR as the engine accepted or rejected the
\* SET, the bulk string of the value or $-1 as the GET hit or missed.
C23_Replies ==
  (ServerAtRest /\ AllGood) =>
    /\ Len(resp.sent) = Len(resp.cmds)
    /\ Len(resp.calls) = Len(resp.cmds)
    /\ \A i \in DOMAIN resp.cmds : Answered(i, i)

\* The same for frames that arrive in one read.
C23_InOneRead ==
  (ServerAtRest /\ AllGood /\ Len(resp.reads) = 1) =>
    /\ Len(resp.sent) = Len(resp.cmds)
    /\ Len(resp.calls) = Len(resp.cmds)
    /\ \A i \in DOMAIN resp.cmds : Answered(i, i)

ErrorLines ==
  { Line("-ERR Unsupported command\r\n"), Line("-ERR Empty command\r\n"),
    Line("-ERR Unknown command\r\n"), Line("-ERR Protocol error\r\n") }

\* C24: a frame that is no SET key value and no GET key is answered by
\* one -ERR line, no engine call is made for it, the parser is back in
\* PARSE_TYPE, and a well-formed command that follows it is carried out
\* and answered.
C24_ErrorRecovery ==
  (ServerAtRest /\ ~resp.cmds[1].good) =>
    /\ resp.pc = "off" /\ resp.state = "PARSE_TYPE"
    /\ Len(resp.sent) >= 1 /\ resp.sent[1] \in ErrorLines
    /\ IF Len(resp.cmds) = 2 /\ resp.cmds[2].good
       THEN Len(resp.sent) = 2 /\ Len(resp.calls) = 1 /\ Answered(2, 1)
       ELSE resp.calls = << >>

\* The same for the frames of which the first is one that handle_client
\* takes apart to its end, each frame arriving in a read of its own.
C24_FrameByFrame ==
  (/\ ServerAtRest
   /\ ~resp.cmds[1].good
   /\ resp.cmds[1].frame \in
        {Array(<<VerbDEL, <<97>>>>), Array(<<VerbGET>>), Array(<< >>)}
   /\ Len(resp.cmds) = 2 => resp.cmds[2].good
   /\ resp.reads = [i \in DOMAIN resp.cmds |-> Len(resp.cmds[i].frame)]) =>
    /\ resp.pc = "off" /\ resp.state = "PARSE_TYPE"
    /\ Len(resp.sent) >= 1 /\ resp.sent[1] \in ErrorLines
    /\ IF Len(resp.cmds) = 2 /\ resp.cmds[2].good
       THEN Len(resp.sent) = 2 /\ Len(resp.calls) = 1 /\ Answered(2, 1)
       ELSE resp.calls = << >>

(***************************************************************************)
(* C25.  The last word of an index file.                                   *)
(***************************************************************************)
\* The last word of the run's index is the number of its records.
TrailerCounts(run) == run.meta[Len(run.meta)] = RunCount(run)

\* C25: the index file of every run, written by a flush or by a merge, is
\* 2n + 1 offsets followed by n, the number of its records.
C25_TrailerIsCount ==
  \A r \in VisibleRuns : TrailerCounts(RunFile(r[1], r[2]))

\* The same for the runs that a flush wrote, those of Tier 1.
C25_FlushedRuns ==
  \A r \in VisibleRuns : r[1] = 1 => TrailerCounts(RunFile(r[1], r[2]))

(***************************************************************************)
(* C26.  Look-up in a run.                                                 *)
(***************************************************************************)
\* The records find_idx was sent to by Find(run, key), counted from 0.
Probed(run, key) ==
  binary_search(run.data, run.meta, run.meta[Len(run.meta)], key, << >>).probed

\* Find gives the value the run holds for the key, or not found when the
\* run does not hold the key, and reads no index words but the 2n + 1
\* offsets.
FindsIn(run, key) ==
  LET res == Find(run, key, << >>)
  IN  /\ ~res.abort
      /\ res.found <=> key \in RunKeys(run)
      /\ res.found => res.value = ValueIn(run, key)
      /\ \A mid \in Probed(run, key) : mid < RunCount(run)

\* C26: for every visible run and every key, Find returns the run's value
\* for the key exactly when the run holds the key, and every record it
\* probes is one of the run's.
C26_RunLookup ==
  \A r \in VisibleRuns : \A key \in Keys : FindsIn(RunFile(r[1], r[2]), key)

\* The same for the runs that a flush wrote, those of Tier 1.
C26_FlushedRuns ==
  \A r \in VisibleRuns : r[1] = 1 =>
    \A key \in Keys : FindsIn(RunFile(r[1], r[2]), key)

(***************************************************************************)
(* C27.  Keys that several runs hold.                                      *)
(***************************************************************************)
\* No key is written twice.
AtMostOnce(out) == RunCount(out) = Cardinality(RunKeys(out))

\* A key is written exactly when it is not dropped as a tombstone of the
\* last tier, and with the value of the newest run that holds it.
NewestOnce(out) ==
  \A k \in SourceKeys :
    /\ k \in RunKeys(out) <=> ~(m_last /\ NewestValue(k) = TOMBSTONE)
    /\ k \in RunKeys(out) => ValueIn(out, k) = NewestValue(k)

\* C27: of the records with the same key the newest run's is written,
\* once, and none of the older ones; every key is written exactly once,
\* unless it is dropped as a tombstone of the last tier.
C27_TieHandling ==
  m_out # << >> => AtMostOnce(m_out[1]) /\ NewestOnce(m_out[1])

\* No key is written twice and no key that the runs do not hold.
C27_NoDuplicates ==
  m_out # << >> =>
    AtMostOnce(m_out[1]) /\ RunKeys(m_out[1]) \subseteq SourceKeys

\* The same as C27 when no run given to merge has an empty data file.
C27_NonEmptyFiles ==
  (m_out # << >> /\ \A j \in 1..Len(m_src) : m_src[j].data # << >>) =>
    AtMostOnce(m_out[1]) /\ NewestOnce(m_out[1])

(***************************************************************************)
(* C28.  mem_size and the signal to the flusher.                           *)
(***************************************************************************)
\* A SET returns true in this step.
SetAccepted == Up /\ crashes' = crashes /\ ret'.op = "SET" /\ ret'.ok

\* The process is started again, or the constructor replays a WAL file.
Restarts ==
  \/ crashes' # crashes
  \/ client.pc \in {"initmem1", "initmem2"}

\* mem_size grows by |k| + |v| with every accepted SET, a key that the
\* buffer holds already included, falls to 0 in the swap, and is changed
\* by nothing else while the process runs.
MemSizeCounts ==
  /\ SetAccepted => mem_size' = mem_size + Len(ret'.key) + Len(ret'.value)
  /\ Swaps => mem_size' = 0
  /\ (~SetAccepted /\ ~Swaps /\ ~Restarts) => mem_size' = mem_size
  /\ client.pc \in {"initmem1", "initmem2"} => mem_size' >= mem_size

\* The SET that takes mem_size to MAX is stored and returns true, sets
\* flushrunning and signals the flusher once; a SET that leaves it below
\* MAX does not signal.
ThresholdSignals ==
  SetAccepted =>
    /\ write_memtable'[ret'.key] = ret'.value
    /\ ~flushrunning
    /\ IF mem_size' >= MAX
       THEN /\ flushrunning'
            /\ flushid' = flushid + 1
            /\ semids'[0] = semids[0] + 1
       ELSE UNCHANGED <<flushrunning, flushid, semids>>

\* C28: mem_size is the sum of |k| + |v| over the accepted PUTs since the
\* last swap, overwrites counted in full; the PUT that takes it to MAX is
\* stored, returns ok, sets flushrunning and signals the flusher once; and
\* whenever tier 0's write lock is free, mem_size >= MAX implies
\* flushrunning.
C28_MemSize ==
  /\ [](mem_size >= MAX => flushrunning)
  /\ [][MemSizeCounts /\ ThresholdSignals]_vars

\* The second PUT of one key has taken mem_size to MAX: the call has
\* returned true, flushrunning is set and the flusher signalled.
C28_Witness ==
  /\ ret.op = "SET" /\ ret.ok
  /\ mem_size >= MAX /\ flushrunning /\ flushid = 1 /\ semids[0] = 1
  /\ DOMAIN write_memtable = {ret.key}


(***************************************************************************)
(* The cascade of compactions (client.cpp 597-613) and the tiers at rest.  *)
(***************************************************************************)
\* The step is the last one of compaction c, lines 600-612: the merged run
\* is added to Tier c.i + 1.
AppendsRun(c) ==
  /\ c \in compactors /\ c.pc = "append" /\ c \notin compactors'
  /\ levels_main'[c.i + 1] = levels_main[c.i + 1] + 1

\* A compaction that leaves Tier i + 1 with MIN_TH runs or more is followed,
\* in the same worker, by the compaction of Tier i + 1, whose token it took
\* at line 597 and has kept; one that leaves it with fewer gives the token
\* back and ends the worker.
Cascades ==
  \A c \in compactors : AppendsRun(c) =>
    IF levels_main'[c.i + 1] >= MIN_TH
    THEN /\ compactors' = (compactors \ {c}) \cup {Compactor(c.i + 1, c.main)}
         /\ semids'[c.i + 1] = 0
    ELSE /\ compactors' = compactors \ {c}
         /\ semids'[c.i + 1] = semids[c.i + 1]

\* The token of a tier under compaction is taken from the start of the
\* compaction to its end.
CascadeHoldsToken == \A c \in compactors : semids[c.i] = 0

\* No flush and no compaction is signalled or under way, and the constructor
\* has returned: no tier holds MIN_TH runs.
TiersBelowAtRest ==
  (Up /\ Quiescent) => \A i \in Tiers : levels_main[i] < MIN_TH

\* C29: a compaction that leaves Tier i+1 with at least MIN_TH runs is
\* followed by the compaction of Tier i+1 in the same worker, Tier i+1's
\* merge token kept in between; so when no flush and no compaction is
\* signalled or in progress, every tier holds fewer than MIN_TH runs.
C29_Cascade ==
  [](CascadeHoldsToken /\ TiersBelowAtRest) /\ [][Cascades]_vars

\* The worker that compacted Tier 1 is compacting Tier 2, which the run it
\* added brought to MIN_TH runs.
C29_Witness ==
  \E c \in compactors :
    /\ c.i = 2 /\ c.pc = "merge" /\ ~c.main
    /\ levels_main[2] >= MIN_TH /\ levels_main[1] = 0
    /\ semids[2] = 0


(***************************************************************************)
(* The order of the replay at startup (client.cpp 326-382).                *)
(***************************************************************************)
\* The records of a WAL file, in the order they were appended.
RECURSIVE WalRecords(_)
WalRecords(file) ==
  IF file = << >> THEN << >>
  ELSE LET klen == file[1]
           vlen == file[klen + 2]
       IN  <<[key |-> SubSeq(file, 2, klen + 1),
              val |-> SubSeq(file, klen + 3, klen + vlen + 2)]>>
           \o WalRecords(SubSeq(file, klen + vlen + 3, Len(file)))

\* The value of the last record of a WAL file for key, NoVal if it has none.
LastLogged(file, key) ==
  LET recs == WalRecords(file)
      at == {n \in DOMAIN recs : recs[n].key = key}
  IN  IF at = {} THEN NoVal
      ELSE recs[CHOOSE n \in at : \A o \in at : o <= n].val

\* The bytes of the records of a WAL file.
Logged(file) ==
  LET recs == WalRecords(file)
      Sum[n \in 0..Len(recs)] ==
        IF n = 0 THEN 0 ELSE Sum[n - 1] + Len(recs[n].key) + Len(recs[n].val)
  IN  Sum[Len(recs)]

\* The step replays file into the active buffer: a key the file holds gets
\* the value of its last record, any other key keeps what the buffer had,
\* and mem_size grows by the bytes of every record.
Replays(file) ==
  /\ \A k \in Keys :
       LET v == LastLogged(file, k)
       IN  IF v # NoVal
           THEN k \in DOMAIN write_memtable' /\ write_memtable'[k] = v
           ELSE /\ (k \in DOMAIN write_memtable') = (k \in DOMAIN write_memtable)
                /\ k \in DOMAIN write_memtable =>
                     write_memtable'[k] = write_memtable[k]
  /\ mem_size' = mem_size + Logged(file)

\* Both files were found at line 358: WAL_temp.bin is replayed now, into
\* an empty buffer, and the records of WAL.bin wait in WAL_temp1.bin.
StagedFirst ==
  (client.pc = "initmem1" /\ Exists("WAL_temp.bin")) =>
    /\ write_memtable = EmptyTable /\ mem_size = 0
    /\ ~Exists("WAL.bin")
    /\ client'.pc # "initmem1" =>
         /\ Replays(walfs["WAL_temp.bin"])
         /\ walfs'["WAL_temp1.bin"] = walfs["WAL_temp1.bin"]

\* The second replay is that of the records WAL.bin had, on top of what
\* the buffer holds.
LiveSecond ==
  (client.pc = "initmem2" /\ Exists(client.WAL1) /\ client'.pc # "initmem2")
    => Replays(walfs[client.WAL1])

\* A replay that brings mem_size to MAX asks for the flush and waits in
\* T(flushid); the wait ends after the flush thread's swap.
ReplayFlushes ==
  /\ (client.pc \in {"initmem1", "initmem2"} /\ mem_size' >= MAX) =>
       /\ flushrunning' /\ flushid' = flushid + 1
       /\ semids'[0] = semids[0] + 1
       /\ client'.pc \in {"initwait1", "initwait2"}
  /\ (client.pc \in {"initwait1", "initwait2"} /\ client'.pc # client.pc) =>
       /\ flushid = 0 /\ ~flushrunning /\ mem_size = 0
       /\ write_memtable = EmptyTable

\* C30: at startup WAL_temp.bin is replayed before the records of WAL.bin,
\* each file in append order, so a key logged in both has WAL.bin's value
\* in the active buffer; a replay that brings mem_size to the threshold
\* has its flush started before the constructor returns.
C30_ReplayOrder ==
  [][crashes' = crashes => (StagedFirst /\ LiveSecond /\ ReplayFlushes)]_vars

\* Both files have been replayed and no SET was called since: the frozen
\* buffer holds the value WAL_temp.bin had for a key and the active buffer
\* the other value WAL.bin had for it.
C30_Witness ==
  /\ crashes > 0 /\ fresh /\ client.pc \in {"idle", "initwait2"}
  /\ client.WAL1 \in {"", "WAL_temp1.bin"}
  /\ walfs["WAL.bin"] = << >> /\ ~Exists("WAL_temp1.bin")
  /\ \E k \in DOMAIN write_memtable \cap DOMAIN read_memtable :
       write_memtable[k] # read_memtable[k]


(***************************************************************************)
(* How a run's files come to be (client.cpp 453-457, 561-605, 866-907).    *)
(***************************************************************************)
\* The threads between the opening and the closing of Tier_i's temp.bin and
\* temp1.bin: FLUSH for Tier_1 (866-894), compact(i - 1) for the others
\* (562-586).
TempWriters(i) ==
  (IF i = 1 /\ flusher = "write" THEN 1 ELSE 0)
    + Cardinality({c \in compactors : c.i + 1 = i /\ c.pc = "merge"})

\* The names of Tier_i's run files that the step creates.
NewRuns(i) ==
  IF i \in 1..Len(tiersfs)
  THEN (DOMAIN tiersfs'[i].bin \ DOMAIN tiersfs[i].bin)
         \cup (DOMAIN tiersfs'[i].meta \ DOMAIN tiersfs[i].meta)
  ELSE DOMAIN tiersfs'[i].bin \cup DOMAIN tiersfs'[i].meta

\* A run file that appears is the closed temp file under its new name, the
\* two of a run together, in a step under the tier's write lock.
CreatedByRename ==
  \A i \in 1..Len(tiersfs') : \A j \in NewRuns(i) :
    /\ i \in 1..Len(tiersfs)
    /\ tiersfs[i].tmp # Absent /\ tiersfs[i].tmp1 # Absent
    /\ TempWriters(i) = 0
    /\ tiersfs'[i].bin[j] = tiersfs[i].tmp
    /\ tiersfs'[i].meta[j] = tiersfs[i].tmp1
    /\ tiersfs'[i].tmp = Absent /\ tiersfs'[i].tmp1 = Absent
    /\ UnderWriteLock(i)
    /\ j = levels_main'[i]

\* A run file that stays keeps its bytes.
RunsImmutable ==
  \A i \in 1..Len(tiersfs) :
    /\ \A j \in DOMAIN tiersfs[i].bin \cap DOMAIN tiersfs'[i].bin :
         tiersfs'[i].bin[j] = tiersfs[i].bin[j]
    /\ \A j \in DOMAIN tiersfs[i].meta \cap DOMAIN tiersfs'[i].meta :
         tiersfs'[i].meta[j] = tiersfs[i].meta[j]

\* The temp files of a tier change only in the step of their one writer
\* or in the rename.
TempWrittenByOne ==
  \A i \in 1..Len(tiersfs) :
    (tiersfs'[i].tmp # tiersfs[i].tmp \/ tiersfs'[i].tmp1 # tiersfs[i].tmp1)
      => \/ TempWriters(i) = 1 /\ TempWriters(i)' = 0
         \/ NewRuns(i) # {}

\* No two threads are writing the temp files of one tier.
OneTempWriter == \A i \in 1..Len(tiersfs) + 1 : TempWriters(i) <= 1

\* C31: the files j.bin and metadataj.bin of a tier appear only by the
\* rename of the closed temp files under the tier's write lock, are never
\* written afterwards, and a tier's temp files have one writer at a time.
C31_RunsByRename ==
  []OneTempWriter
    /\ [][CreatedByRename /\ RunsImmutable /\ TempWrittenByOne]_vars

\* Tier_2's first run has been made from the temp files compact(1) wrote.
C31_Witness ==
  /\ Len(tiersfs) >= 2 /\ levels_main[2] = 1
  /\ 1 \in DOMAIN tiersfs[2].bin /\ 1 \in DOMAIN tiersfs[2].meta
  /\ tiersfs[2].tmp = Absent /\ tiersfs[1].bin = EmptyDir.bin


(***************************************************************************)
(* The runs of a tier, their files and their filters (client.cpp 588-605,  *)
(* 902-915, 424-442).                                                      *)
(***************************************************************************)
\* Filter j of tier i answers for run j: it has every key of the run (a
\* run whose data file is empty left aside, whose filter a restart builds
\* empty).
FilterOfRun(i, j) ==
  tiersfs[i].bin[j] # << >> =>
    \A k \in RunKeys(RunFile(i, j)) : FilterContains(filters[i][j], k)

\* Tier i has as many filters as runs, one per run in the order of the
\* runs, and its run files are 1.bin .. n.bin with their index files.
TierAligned(i) ==
  /\ Len(filters[i]) = levels_main[i]
  /\ DOMAIN tiersfs[i].bin = 1..levels_main[i]
  /\ DOMAIN tiersfs[i].meta = 1..levels_main[i]
  /\ \A j \in 1..levels_main[i] : FilterOfRun(i, j)

\* A step that adds a run to tier i leaves the runs and filters the tier
\* had where they were and puts the new pair last.
RunsKeepIndex ==
  \A i \in Tiers :
    levels_main'[i] > levels_main[i] =>
      /\ levels_main'[i] = levels_main[i] + 1
      /\ \A j \in 1..levels_main[i] :
           /\ filters'[i][j] = filters[i][j]
           /\ tiersfs'[i].bin[j] = tiersfs[i].bin[j]

CompactionOwed(i) ==
  \/ i = 1 /\ compactid > 0
  \/ \E c \in compactors : c.i = i /\ c.pc \in {"merge", "lock"}

\* After startup no tier holds more than MIN_TH runs, and the token of a
\* tier that holds MIN_TH runs is taken, for the compaction that is to
\* empty it.
RunBound ==
  Up => \A i \in Tiers :
          /\ levels_main[i] <= MIN_TH
          /\ levels_main[i] >= MIN_TH => (semids[i] = 0 /\ CompactionOwed(i))

\* A run is added only to a tier that holds fewer than MIN_TH runs, one
\* run a step.
FullTierRefuses ==
  \A i \in Tiers :
    levels_main'[i] > levels_main[i] =>
      /\ levels_main[i] < MIN_TH
      /\ levels_main'[i] = levels_main[i] + 1

LockBlocked(t) ==
  \/ lockers[t].pc \in {"wl_P_writer", "wu_P_writer"} /\ writer = 0
  \/ lockers[t].pc \in {"rl_P_reader", "ru_P_reader"} /\ reader = 0
  \/ lockers[t].pc \in {"wl_P_wsemids", "rl_P_wsemids"} /\ wsemids = 0
  \/ lockers[t].pc = "wl_P_mtx" /\ mtx = 0

\* C34: no set of threads waits for ever for locks, tokens, the flush gate
\* or the wake-up counters that threads of the set hold or owe: here,
\* the users of one tier's lock are never all in a P that cannot return.
C34_NoDeadlock == \E t \in 1..NLockers : ~LockBlocked(t)

\* The same while no vector of counters has been grown.
C34_LocksUndisturbed ==
  lockers[0].pc = "get_folder" => \E t \in 1..NLockers : ~LockBlocked(t)

\* A thread of the engine waits: the caller at the flush gate, at a read
\* lock or in the constructor, the flush thread for a token or for its
\* counter while a flush is asked for, a compaction for a lock or a token.
EngineWaits ==
  \/ client.pc = "setwait" /\ (flushrunning \/ flushid > 0)
  \/ client.pc = "get" /\ ~GetGoesOn
  \/ client.pc \in {"initwait1", "initwait2"} /\ flushid > 0
  \/ client.pc = "bootwait" /\ \E c \in compactors : c.main
  \/ flusher = "mlock0" /\ flushrunning /\ ~MergeLockReturns(0)
  \/ flusher = "P" /\ flushid = 0
  \/ flusher = "append" /\ ~MayAppend(1)
  \/ \E c \in compactors :
       \/ c.pc = "lock" /\ ~WriteLockReturns(c.i)
       \/ c.pc = "append" /\ ~MayAppend(c.i + 1)

\* A thread of the engine other than the waiting ones has a step to take,
\* without a new call.
EngineSteps ==
  \/ flusher = "mlock0" /\ MergeLockReturns(0)
  \/ flusher = "P" /\ flushid > 0
  \/ flusher \in {"write", "clear"}
  \/ flusher = "append" /\ MayAppend(1)
  \/ compactid > 0
  \/ \E c \in compactors :
       \/ c.pc = "merge"
       \/ c.pc = "lock" /\ WriteLockReturns(c.i)
       \/ c.pc = "append" /\ MayAppend(c.i + 1)

\* With each lock section taken as one step: whenever a thread of the
\* engine waits, the flush thread, compact_main or a compaction can go on.
C34_EngineGoesOn == (Running /\ EngineWaits) => EngineSteps


(***************************************************************************)
(* The WAL files and the buffers (client.cpp 326-382, 722-732, 853-864).   *)
(***************************************************************************)
\* A replay of the file named name, in order, gives exactly table.
Mirrors(name, table) ==
  LET file == IF Exists(name) THEN walfs[name] ELSE << >>
  IN  \A k \in Keys :
        LastLogged(file, k) = IF k \in DOMAIN table THEN table[k] ELSE NoVal

\* WAL.bin mirrors the active buffer, and WAL_temp.bin the frozen buffer
\* while there is one.
WalMirrors ==
  /\ Mirrors("WAL.bin", write_memtable)
  /\ ifread_memtable => Mirrors("WAL_temp.bin", read_memtable)

\* C35: whenever tier 0's write lock is free, also right after the
\* recovery at startup, a replay of WAL.bin gives exactly the active
\* buffer, and a replay of WAL_temp.bin the frozen buffer while there is
\* one; so what a start restored from the WAL files is restored again by
\* the next start.
C35_WalMirrors == Up => WalMirrors

\* The same in a process that was started on a directory with no WAL
\* records.
C35_BeforeRestart == (Up /\ crashes = 0) => WalMirrors


(***************************************************************************)
(* A SET that waits (part_000 76-83; client.cpp 848-917).                  *)
(***************************************************************************)
\* The caller is in the loop of line 79.
PutWaits == client.pc = "setwait"

\* The call has returned.
PutReturned == client.pc = "idle" /\ ret.op = "SET"

BitsOf(run) == UNION { FilterBits(k) : k \in RunKeys(run) }

\* Every filter of Tier 1 has the bits of its run's keys and no others.
FlushFiltersExact ==
  1 \in Tiers =>
    \A j \in 1..levels_main[1] : filters[1][j] = BitsOf(RunFile(1, j))

\* C37: the filter FLUSH appends to Tier 1 with a run is built from
\* exactly the keys of that run: it has no bit set by a key that was only
\* in a buffer flushed earlier.
C37_FlushFilter == FlushFiltersExact

\* The same for the first flush of a process.
C37_FirstFlush == Len(hist.flushed) <= 1 => FlushFiltersExact


(***************************************************************************)
(* The frames and the reads that bring them (part_002 165-238, 314-330).   *)
(***************************************************************************)
\* What handle_client does with well-formed commands that arrive in one
\* read: a call and a reply per command, in order, and the parser back at
\* the start with an empty buffer.
AsInOneRead ==
  /\ resp.pc = "off" /\ resp.state = "PARSE_TYPE" /\ resp.buffer = << >>
  /\ Len(resp.calls) = Len(resp.cmds)
  /\ Len(resp.sent) = Len(resp.cmds)
  /\ \A i \in DOMAIN resp.cmds : Answered(i, i)

\* The bytes came in more than one read.
SplitReads == Len(resp.reads) > 1

\* Each read brought whole frames.
SplitAtFrames == resp.reads = [i \in DOMAIN resp.cmds |-> Len(resp.cmds[i].frame)]

\* C38: however the bytes of well-formed commands are split into reads,
\* in the *N line, in a $L line or in a bulk string, the calls made and the
\* replies sent are those of the bytes arriving in one read.
C38_AnySplit == (ServerAtRest /\ AllGood /\ SplitReads) => AsInOneRead

\* The same for reads that end where a frame ends, and for one read.
C38_WholeFrames ==
  (ServerAtRest /\ AllGood /\ (SplitAtFrames \/ ~SplitReads)) => AsInOneRead


(***************************************************************************)
(* Who touches a client's context (part_002 165-167, 299-333, 119-140).    *)
(***************************************************************************)
\* The workers that are in handle_client on the context.
InHandler == { w \in 1..PoolThreads : resp.workers[w] # "idle" }

\* C39: a client's context is used by one thread at a time: no two
\* workers are in handle_client on it, the epoll loop does not append to
\* its buffer while a worker is, and does not erase it while a worker is.
C39_OneThread ==
  /\ Cardinality(InHandler) <= 1
  /\ resp.main = "recv" => InHandler = {}
  /\ resp.erased => InHandler = {}

\* What the flag does give: when the loop has passed line 324 for the
\* k-th event, the handlers of the events before, but for one, have
\* started.
C39_WaitsForAStart ==
  resp.main \in {"wait", "erase", "recv", "enqueue"} =>
    resp.started + 1 >= resp.events - (IF resp.main \in {"recv", "enqueue"} THEN 1 ELSE 0)

=============================================================================
